---- MODULE Spec2Model ----
(***************************************************************************)
(* Model of the telemetry-service trace store (TelemetryStorage) and of    *)
(* the values it holds (TelemetrySpan), from                               *)
(* src/telemetry-service/src/storage.ts.                                   *)
(*                                                                         *)
(* Representation of JavaScript values:                                    *)
(*  - arrays are sequences (index 0 of the array is index 1 of the         *)
(*    sequence);                                                           *)
(*  - strings that are only compared for equality (operationName, status)  *)
(*    are TLA+ strings;                                                    *)
(*  - a value whose type the code does not fix (a wire value, the          *)
(*    serviceName taken from it) is a record tagged with its type;         *)
(*  - strings that are ordered or built character by character (the ISO    *)
(*    timestamp, identifiers) are sequences of UTF-16 code units;          *)
(*  - a time value (milliseconds since the epoch) is the record            *)
(*    [day, msec] of ECMA-262's Day(t) and TimeWithinDay(t), because the   *)
(*    millisecond count of a far date does not fit a 32-bit integer;       *)
(*  - null and undefined are the records Null and Undefined.               *)
(*                                                                         *)
(* The fields of a record are written in the order in which TLC keeps      *)
(* them (the order in which their names first occur in this module), not   *)
(* in the order of the source: TLC sorts a record in place the first time  *)
(* it is compared, and two workers sorting the same record at once can     *)
(* corrupt it; a record written in order is never rearranged.              *)
(***************************************************************************)
EXTENDS Integers, Sequences, FiniteSets, TLC

VARIABLES
    spans,      \* TelemetryStorage.spans: the held spans, oldest first
    maxSpans,   \* TelemetryStorage.maxSpans: the capacity, fixed at construction
    appended,   \* history: every span passed to addSpan since the last clear
    dropped,    \* history: how many spans the last addSpan or clear discarded
    op,         \* the operation that ran last
    arg,        \* its argument; before a decoder's call, the argument it will get
    ret,        \* its return value
    requests,   \* the HTTP requests received, each with the place its handler is at
    log         \* history: the accesses to the store, each with its request

vars == <<spans, maxSpans, appended, dropped, op, arg, ret, requests, log>>

-----------------------------------------------------------------------------
(* Bounds of the model *)

\* Capacities explored: maxSpans ranges over 1..MaxCapacity (the code's 10000
\* scaled down).
MaxCapacity == 3
\* Appends explored between two clears.
MaxAppends == 3
\* Largest explicit limit passed to getRecentSpans.
MaxLimit == 3
\* Largest number of distinct operation names in a pre-filled store.
MaxOps == 11

(* Program constants *)

\* storage.ts:99  .slice(0, 10)
TopN == 10
\* storage.ts:122 getRecentSpans(limit: number = 50)
DefaultLimit == 50
\* index.ts:139  spans.slice(0, 100)
FetchCap == 100

-----------------------------------------------------------------------------
(* JavaScript values *)

\* A value whose type varies carries its type: t is what typeof and the
\* null / array tests tell apart.
Null == [t |-> "null"]
Undefined == [t |-> "undefined"]
NaN == [t |-> "NaN"]
\* A number that fits the model's integers.
Num(n) == [t |-> "number", v |-> n]
Bool(b) == [t |-> "boolean", v |-> b]
\* A string that is only compared.
Str(s) == [t |-> "string", v |-> s]
\* A string as its sequence of code units.
Text(cs) == [t |-> "text", v |-> cs]
Arr(elems) == [t |-> "array", v |-> elems]
\* An object: fields is a function from its property names.
Obj(fields) == [t |-> "object", v |-> fields]
\* The object and the map with no property.
NoFields == [k \in {} |-> Undefined]

\* ToBoolean: what !v and v || w test.
truthy(v) ==
    CASE v.t \in {"null", "undefined", "NaN"} -> FALSE
      [] v.t = "number" -> v.v # 0
      [] v.t = "boolean" -> v.v
      [] v.t = "string" -> v.v # ""
      [] v.t = "text" -> v.v # <<>>
      [] OTHER -> TRUE

\* o.f on a value that is not null or undefined: undefined unless o is an
\* object with that property.
get(o, f) == IF o.t = "object" /\ f \in DOMAIN o.v THEN o.v[f] ELSE Undefined

\* Reading a property of null or undefined throws a TypeError.
nullish(o) == o.t \in {"null", "undefined"}

Min(S) == CHOOSE x \in S : \A y \in S : x <= y
Max(S) == CHOOSE x \in S : \A y \in S : y <= x

\* Array.prototype.slice(start, end): negative indices count from the end,
\* both are clamped to 0..length.
slice(s, start, end) ==
    LET Clamp(i, len) == IF i < 0 THEN Max({len + i, 0}) ELSE Min({i, len})
        Copy(k, final) == IF k >= final THEN <<>> ELSE SubSeq(s, k + 1, final)
    IN  Copy(Clamp(start, Len(s)), Clamp(end, Len(s)))

\* Array.prototype.slice(start): end defaults to the length.
sliceFrom(s, start) == slice(s, start, Len(s))

\* Array.prototype.reverse on a copy.
reverse(s) == [i \in 1..Len(s) |-> s[Len(s) + 1 - i]]

\* timestamps[i] with a 0-based index into an array of strings: undefined
\* outside the array.
stringAt(s, i) == IF i >= 0 /\ i < Len(s) THEN Text(s[i + 1]) ELSE Undefined

\* v || null
orNull(v) == IF truthy(v) THEN v ELSE Null

\* Order of two strings by UTF-16 code units, as the default comparison of
\* Array.prototype.sort: a <= b.
strLE(a, b) ==
    LET At(i) == a[i] < b[i]
        First(diff) == IF diff = {} THEN Len(a) <= Len(b) ELSE At(Min(diff))
    IN  First({i \in 1..Min({Len(a), Len(b)}) : a[i] # b[i]})

RECURSIVE insertString(_, _)
\* Insert x into the sorted sequence s after every element <= x (stable).
insertString(s, x) ==
    IF s = <<>> THEN <<x>>
    ELSE IF strLE(s[Len(s)], x) THEN Append(s, x)
    ELSE Append(insertString(SubSeq(s, 1, Len(s) - 1), x), s[Len(s)])

RECURSIVE sortStrings(_)
\* Array.prototype.sort() with no comparator on an array of strings.
sortStrings(s) ==
    IF s = <<>> THEN <<>>
    ELSE insertString(sortStrings(SubSeq(s, 1, Len(s) - 1)), s[Len(s)])

-----------------------------------------------------------------------------
(* Date.prototype.toISOString, as convertSpan uses it for the timestamp *)

Code(c) ==
    CASE c = "+" -> 43 [] c = "-" -> 45 [] c = "." -> 46 [] c = ":" -> 58
      [] c = "T" -> 84 [] c = "Z" -> 90

Digit(d) == 48 + d

RECURSIVE pad(_, _)
\* The decimal digits of n >= 0, zero-padded on the left to width w.
pad(n, w) == IF w = 0 THEN <<>> ELSE Append(pad(n \div 10, w - 1), Digit(n % 10))

\* Year, month and day of the proleptic Gregorian calendar for a day number
\* counted from 1970-01-01 (ECMA-262 YearFromTime, MonthFromTime, DateFromTime).
civil(day) ==
    LET \* mp: the month counted from March; doy: the day of a year that
        \* starts in March; yoe, doe: year and day of a 400-year era.
        OfMonth(era, yoe, doy, mp) ==
            [ year |-> yoe + era * 400 + (IF mp < 10 THEN 0 ELSE 1),
              month |-> IF mp < 10 THEN mp + 3 ELSE mp - 9,
              date |-> doy - (153 * mp + 2) \div 5 + 1 ]
        OfDayOfYear(era, yoe, doy) == OfMonth(era, yoe, doy, (5 * doy + 2) \div 153)
        OfYearOfEra(era, doe, yoe) ==
            OfDayOfYear(era, yoe, doe - (365 * yoe + yoe \div 4 - yoe \div 100))
        OfDayOfEra(era, doe) ==
            OfYearOfEra(era, doe,
                (doe - doe \div 1460 + doe \div 36524 - doe \div 146096) \div 365)
        OfShifted(z) == OfDayOfEra(z \div 146097, z % 146097)
    IN  OfShifted(day + 719468)

\* A time value toISOString accepts: |t| <= 8.64e15 ms; it throws a RangeError
\* on any other (and on NaN).
validTime(t) ==
    /\ t.msec \in 0..86399999
    /\ \/ t.day \in -100000000..99999999
       \/ t.day = 100000000 /\ t.msec = 0

\* toISOString: YYYY-MM-DDTHH:mm:ss.sssZ for the years 0..9999, and a sign
\* with six digits of year for every other year.
toISOString(t) ==
    LET Year(y) == IF y >= 0 /\ y <= 9999 THEN pad(y, 4)
                   ELSE IF y > 9999 THEN <<Code("+")>> \o pad(y, 6)
                   ELSE <<Code("-")>> \o pad(0 - y, 6)
        Format(c, msec) ==
            Year(c.year) \o <<Code("-")>> \o pad(c.month, 2) \o <<Code("-")>> \o pad(c.date, 2)
               \o <<Code("T")>> \o pad(msec \div 3600000, 2)
               \o <<Code(":")>> \o pad((msec \div 60000) % 60, 2)
               \o <<Code(":")>> \o pad((msec \div 1000) % 60, 2)
               \o <<Code(".")>> \o pad(msec % 1000, 3) \o <<Code("Z")>>
    IN  Format(civil(t.day), t.msec)

\* t1 < t2 as numbers.
timeLess(t1, t2) == t1.day < t2.day \/ (t1.day = t2.day /\ t1.msec < t2.msec)

-----------------------------------------------------------------------------
(* OTLPProcessor: decoding of one wire span *)

\* The outcome of a call that threw.
Thrown == [t |-> "throw"]

\* A number of milliseconds as a number value: v is its time value.
Millis(tv) == [t |-> "number", v |-> tv]

\* The time value of a number of milliseconds that fits the model's integers.
timeOf(m) == [day |-> m \div 86400000, msec |-> m % 86400000]

RECURSIVE timeOfDigits(_)
\* The time value of a count of milliseconds given by its decimal digits.
timeOfDigits(ds) ==
    IF ds = <<>> THEN [day |-> 0, msec |-> 0]
    ELSE LET Carry(day, m) == [day |-> day + m \div 86400000, msec |-> m % 86400000]
             Shift(hi, d) == Carry(hi.day * 10, hi.msec * 10 + d)
         IN  Shift(timeOfDigits(SubSeq(ds, 1, Len(ds) - 1)), ds[Len(ds)])

\* -(t), and -(t + 1): the floor of a negative quotient.
negate(t) ==
    IF t.msec = 0 THEN [day |-> 0 - t.day, msec |-> 0]
    ELSE [day |-> 0 - t.day - 1, msec |-> 86400000 - t.msec]
addOne(t) ==
    IF t.msec = 86399999 THEN [day |-> t.day + 1, msec |-> 0]
    ELSE [t EXCEPT !.msec = @ + 1]

\* parseInt of a string, radix 10: an optional "-" and the longest run of
\* decimal digits that follows; NaN when there is none.  The result is kept
\* as [neg, digits].
parseInt(cs) ==
    LET Decimal(neg, body, n) ==
            IF n = 0 THEN NaN
            ELSE [t |-> "decimal", neg |-> neg, digits |-> [k \in 1..n |-> body[k] - Digit(0)]]
        Run(neg, body, stop) ==
            Decimal(neg, body, IF stop = {} THEN Len(body) ELSE Min(stop) - 1)
        Signed(neg, body) ==
            Run(neg, body, {i \in 1..Len(body) : body[i] < Digit(0) \/ body[i] > Digit(9)})
    IN  IF cs # <<>> /\ cs[1] = Code("-") THEN Signed(TRUE, SubSeq(cs, 2, Len(cs)))
        ELSE Signed(FALSE, cs)

RECURSIVE valueOf(_)
\* The integer a short run of digits denotes.
valueOf(ds) ==
    IF ds = <<>> THEN 0 ELSE valueOf(SubSeq(ds, 1, Len(ds) - 1)) * 10 + ds[Len(ds)]

RECURSIVE modOf(_, _)
\* The remainder modulo m of the count with decimal digits ds.
modOf(ds, m) ==
    IF ds = <<>> THEN 0
    ELSE (modOf(SubSeq(ds, 1, Len(ds) - 1), m) * 10 + ds[Len(ds)]) % m

\* The counts from 2^60 on whose quotient by 10^6 is below 2^41 (the
\* nanosecond timestamps of the years 2006 to 2039): the doubles next to
\* the count are 256 apart, those next to the quotient 2^-12.
inBinade60(ds) ==
    /\ Len(ds) = 19
    /\ strLE(<<1, 1, 5, 2, 9, 2, 1, 5, 0, 4, 6, 0, 6, 8, 4, 6, 9, 7, 6>>, ds)
    /\ strLE(ds, <<2, 1, 9, 9, 0, 2, 3, 2, 5, 5, 5, 5, 1, 9, 9, 9, 9, 9, 9>>)

\* parseInt of such a count minus the count: the result is the nearest
\* multiple of 256, the even one of two that are equally near.
roundingError(ds) ==
    LET Nearest(r, r512) ==
            IF r < 128 THEN 0 - r
            ELSE IF r > 128 THEN 256 - r
            ELSE IF r512 = 128 THEN -128 ELSE 128
    IN  Nearest(modOf(ds, 256), modOf(ds, 512))

\* Math.floor(parseInt(nanos) / 1000000) for such a count: the quotient of
\* the rounded count is rounded to the nearest multiple of 2^-12, which is
\* the next integer from 999878 millionths on.
flooredQuotient(ds) ==
    LET Adjust(whole, rest) ==
            IF rest >= 999878 THEN addOne(whole)
            ELSE IF rest < -122 THEN negate(addOne(negate(whole)))
            ELSE whole
    IN  Adjust(timeOfDigits(SubSeq(ds, 1, 13)),
               valueOf(SubSeq(ds, 14, 19)) + roundingError(ds))

\* nanosToMillis: Math.floor(parseInt(nanos) / 1000000) for a string,
\* Math.floor(nanos / 1000000) for anything else (null counts as 0, true as 1,
\* undefined and objects give NaN).  The quotient of a digit string is its
\* digits but the last six; the arithmetic is exact, as the code's is for
\* every count below 2^53 and for the larger ones the model sends, except
\* the counts of inBinade60, which parseInt and the division round.
nanosToMillis(nanos) ==
    CASE nanos.t = "text" ->
            LET Floor(neg, whole, rest) ==
                    IF ~neg THEN Millis(whole)
                    ELSE IF \A k \in 1..Len(rest) : rest[k] = 0 THEN Millis(negate(whole))
                    ELSE Millis(negate(addOne(whole)))
                Quotient(neg, digits, n) ==
                    IF ~neg /\ inBinade60(digits) THEN Millis(flooredQuotient(digits))
                    ELSE Floor(neg, timeOfDigits(SubSeq(digits, 1, n - 6)),
                               SubSeq(digits, Max({n - 5, 1}), n))
                Parsed(p) == IF p.t = "NaN" THEN NaN ELSE Quotient(p.neg, p.digits, Len(p.digits))
            IN  Parsed(parseInt(nanos.v))
      [] nanos.t = "string" -> NaN
      [] nanos.t = "number" -> Millis(timeOf(nanos.v \div 1000000))
      [] nanos.t \in {"null", "boolean"} -> Millis(timeOf(0))
      [] nanos.t \in {"undefined", "object", "NaN"} -> NaN

\* b.toString(16) for an integer b >= 0.
RECURSIVE toHex(_)
toHex(b) ==
    LET d == b % 16
        c == IF d < 10 THEN Digit(d) ELSE 87 + d
    IN  IF b < 16 THEN <<c>> ELSE Append(toHex(b \div 16), c)

\* b.toString(16) left as it is.
padStart2_noPad(cs) == cs

\* str.padStart(2, '0')
padStart2(cs) == IF Len(cs) >= 2 THEN cs ELSE IF Len(cs) = 1 THEN <<Digit(0)>> \o cs ELSE <<Digit(0), Digit(0)>>

RECURSIVE joinHex(_)
\* Array.from(bytes).map(b => b.toString(16).padStart(2, '0')).join('')
joinHex(bytes) ==
    IF bytes = <<>> THEN <<>>
    ELSE joinHex(SubSeq(bytes, 1, Len(bytes) - 1)) \o padStart2(toHex(bytes[Len(bytes)].v))

\* bytesToHex: a string as it is, a byte array as lowercase hex, anything
\* falsy or of length 0 as the empty string.
bytesToHex(bytes) ==
    CASE bytes.t \in {"text", "string"} -> bytes.v
      [] bytes.t = "array" -> joinHex(bytes.v)
      [] OTHER -> <<>>

\* extractStatus reading an absent code as 0.
extractStatus_absentIsUnset(status) ==
    IF ~truthy(status) THEN "OK"
    ELSE CASE get(status, "code").t \in {"undefined", "null"} -> "UNSET"
           [] get(status, "code") = Num(0) -> "UNSET"
           [] get(status, "code") = Num(1) -> "OK"
           [] get(status, "code") = Num(2) -> "ERROR"
           [] OTHER -> "UNKNOWN"

\* extractStatus: no status object is OK; otherwise by status.code.
extractStatus(status) ==
    IF ~truthy(status) THEN "OK"
    ELSE LET Switch(code) ==
                 CASE code.t = "number" /\ code.v = 0 -> "UNSET"
                   [] code.t = "number" /\ code.v = 1 -> "OK"
                   [] code.t = "number" /\ code.v = 2 -> "ERROR"
                   [] OTHER -> "UNKNOWN"
         IN  Switch(get(status, "code"))

\* result[key] = value keeping a value the key already has.
put_keepFirst(m, k, v) ==
    [x \in DOMAIN m \cup {k} |-> IF x \in DOMAIN m THEN m[x] ELSE v]

\* result[key] = value
put(m, k, v) == [x \in DOMAIN m \cup {k} |-> IF x = k THEN v ELSE m[x]]

\* A property name as the code units JSON.stringify writes, for the names
\* the model sends.
propertyName(k) ==
    CASE k = "arrayValue" -> <<97, 114, 114, 97, 121, 86, 97, 108, 117, 101>>
      [] k = "values" -> <<118, 97, 108, 117, 101, 115>>

RECURSIVE json(_)
\* The JSON text of a value: null, a boolean, a string without characters
\* to escape, an array, an object of at most one property.
json(v) ==
    CASE v.t = "null" -> <<110, 117, 108, 108>>
      [] v.t = "boolean" -> IF v.v THEN <<116, 114, 117, 101>> ELSE <<102, 97, 108, 115, 101>>
      [] v.t = "text" -> <<34>> \o v.v \o <<34>>
      [] v.t = "array" ->
            LET Item(i) == IF i = 1 THEN json(v.v[i]) ELSE <<44>> \o json(v.v[i])
                Items[i \in 0..Len(v.v)] == IF i = 0 THEN <<>> ELSE Items[i - 1] \o Item(i)
            IN  <<91>> \o Items[Len(v.v)] \o <<93>>
      [] v.t = "object" /\ DOMAIN v.v = {} -> <<123, 125>>
      [] v.t = "object" /\ Cardinality(DOMAIN v.v) = 1 ->
            LET Property(k) == <<34>> \o propertyName(k) \o <<34, 58>> \o json(v.v[k])
            IN  <<123>> \o Property(CHOOSE k \in DOMAIN v.v : TRUE) \o <<125>>

\* JSON.stringify of an attribute value that has none of the four typed
\* fields.
stringify(value) == Text(json(value))

\* parseInt(value.intValue), for values that fit the model's integers.
parseIntValue(v) ==
    CASE v.t = "number" -> v
      [] v.t = "text" ->
            LET Parsed(p) ==
                    IF p.t = "NaN" THEN NaN
                    ELSE Num(IF p.neg THEN 0 - valueOf(p.digits) ELSE valueOf(p.digits))
            IN  Parsed(parseInt(v.v))
      [] OTHER -> NaN

\* attributeValue looking at intValue before stringValue.
attributeValue_intFirst(value) ==
    IF get(value, "intValue").t # "undefined" THEN parseIntValue(get(value, "intValue"))
    ELSE IF get(value, "stringValue").t # "undefined" THEN get(value, "stringValue")
    ELSE IF get(value, "doubleValue").t # "undefined" THEN get(value, "doubleValue")
    ELSE IF get(value, "boolValue").t # "undefined" THEN get(value, "boolValue")
    ELSE stringify(value)

\* The value stored for one attribute: the first of stringValue, intValue,
\* doubleValue, boolValue that is defined, else the JSON text of the object.
attributeValue(value) ==
    IF get(value, "stringValue").t # "undefined" THEN get(value, "stringValue")
    ELSE IF get(value, "intValue").t # "undefined" THEN parseIntValue(get(value, "intValue"))
    ELSE IF get(value, "doubleValue").t # "undefined" THEN get(value, "doubleValue")
    ELSE IF get(value, "boolValue").t # "undefined" THEN get(value, "boolValue")
    ELSE stringify(value)

RECURSIVE extractAttributeList(_)
\* The loop of extractAttributes over an array: entries with no key or no
\* value are skipped, a repeated key is overwritten.
extractAttributeList(attrs) ==
    IF attrs = <<>> THEN NoFields
    ELSE LET Set(before, key, value) ==
                 IF ~truthy(key) \/ ~truthy(value) THEN before
                 ELSE put(before, key.v, attributeValue(value))
             Entry(before, attr) == Set(before, get(attr, "key"), get(attr, "value"))
         IN  Entry(extractAttributeList(SubSeq(attrs, 1, Len(attrs) - 1)), attrs[Len(attrs)])

\* extractAttributes: {} for a missing list; a string iterates over
\* characters, which have no key.
extractAttributes(attributes) ==
    IF truthy(attributes) /\ attributes.t = "array"
    THEN extractAttributeList(attributes.v)
    ELSE NoFields

\* extractAttributes throws on a list that is not iterable and on an entry
\* that is null or undefined.
extractAttributesThrows(attributes) ==
    /\ truthy(attributes)
    /\ \/ attributes.t \notin {"array", "string", "text"}
       \/ /\ attributes.t = "array"
          /\ \E i \in 1..Len(attributes.v) : nullish(attributes.v[i])

\* extractEvents mapping the events from the last to the first.
extractEvents_reversed(events) ==
    IF ~truthy(events) THEN <<>>
    ELSE [ i \in 1..Len(events.v) |->
             LET event == events.v[Len(events.v) + 1 - i]
             IN  [ attributes |-> extractAttributes(get(event, "attributes")),
                   name |-> IF truthy(get(event, "name")) THEN get(event, "name").v
                            ELSE "unknown-event",
                   timestamp |-> nanosToMillis(get(event, "timeUnixNano")) ] ]

\* extractEvents: [] for a missing list, else events.map(...).
extractEvents(events) ==
    IF ~truthy(events) THEN <<>>
    ELSE [ i \in 1..Len(events.v) |->
             LET event == events.v[i]
             IN  [ attributes |-> extractAttributes(get(event, "attributes")),
                   name |-> IF truthy(get(event, "name")) THEN get(event, "name").v
                            ELSE "unknown-event",
                   timestamp |-> nanosToMillis(get(event, "timeUnixNano")) ] ]

\* extractEvents throws on a value with no map method, on an event that is
\* null or undefined and on event attributes that cannot be traversed.
extractEventsThrows(events) ==
    /\ truthy(events)
    /\ \/ events.t # "array"
       \/ \E i \in 1..Len(events.v) :
             \/ nullish(events.v[i])
             \/ extractAttributesThrows(get(events.v[i], "attributes"))

\* endTimeMs - startTimeMs, but never below 0.
minus_clamped(a, b) ==
    IF a.t = "NaN" \/ b.t = "NaN" THEN NaN
    ELSE Num(Max({0, (a.v.day - b.v.day) * 86400000 + a.v.msec - b.v.msec}))

\* endTimeMs - startTimeMs
minus(a, b) ==
    IF a.t = "NaN" \/ b.t = "NaN" THEN NaN
    ELSE Num((a.v.day - b.v.day) * 86400000 + a.v.msec - b.v.msec)

\* new Date(ms).toISOString() throws a RangeError on NaN and on a time
\* value out of range.
invalidDate(ms) == ms.t = "NaN" \/ ~validTime(ms.v)

\* convertSpan throws when the span is null or undefined, when its start
\* time is no valid date and when its attributes or events cannot be
\* traversed.
convertSpanThrows(span) ==
    \/ nullish(span)
    \/ invalidDate(nanosToMillis(get(span, "startTimeUnixNano")))
    \/ extractAttributesThrows(get(span, "attributes"))
    \/ extractEventsThrows(get(span, "events"))

\* convertSpan: the TelemetrySpan of one wire span.
convertSpan(span, serviceName) ==
    LET TelemetrySpan(startTimeMs, endTimeMs) ==
        [ status |-> extractStatus(get(span, "status")),
          attributes |-> extractAttributes(get(span, "attributes")),
          events |-> extractEvents(get(span, "events")),
          timestamp |-> toISOString(startTimeMs.v),
          serviceName |-> serviceName,
          traceId |-> bytesToHex(get(span, "traceId")),
          spanId |-> bytesToHex(get(span, "spanId")),
          parentSpanId |-> IF truthy(get(span, "parentSpanId"))
                           THEN Text(bytesToHex(get(span, "parentSpanId")))
                           ELSE Undefined,
          operationName |-> IF truthy(get(span, "name")) THEN get(span, "name").v
                            ELSE "unknown-operation",
          startTime |-> startTimeMs,
          endTime |-> endTimeMs,
          duration |-> minus(endTimeMs, startTimeMs) ]
    IN  TelemetrySpan(nanosToMillis(get(span, "startTimeUnixNano")),
                      nanosToMillis(get(span, "endTimeUnixNano")))

-----------------------------------------------------------------------------
(* TelemetryStorage *)

\* addSpan keeping the oldest spans instead of the newest.
addSpan_keepOldest(s, span, cap) ==
    IF Len(s) + 1 > cap THEN slice(Append(s, span), 0, cap) ELSE Append(s, span)

\* addSpan without the truncation.
addSpan_noEviction(s, span, cap) == Append(s, span)

\* addSpan: push, then keep the last maxSpans when over capacity.
addSpan(s, span, cap) ==
    LET Truncate(pushed) == IF Len(pushed) > cap THEN sliceFrom(pushed, 0 - cap) ELSE pushed
    IN  Truncate(Append(s, span))

\* this.spans after a read that reverses the held array itself.
afterRead_inPlace(s) == reverse(s)

\* this.spans after a read: reverse() and sort() reorder the array they are
\* called on, which is the copy [...this.spans] in getAllSpans, the copy
\* slice(-limit) in getRecentSpans and the arrays made by map() and
\* Array.from() in getStats; filter() makes a new array; this.spans is not
\* assigned.
afterRead(s) == s

\* getAllSpans without the reversal.
getAllSpans_noReverse(s) == s

getAllSpans(s) == reverse(s)

\* getSpansByService matching the operation name instead.
getSpansByService_wrongField(s, serviceName) ==
    SelectSeq(s, LAMBDA span : Str(span.operationName) = serviceName)

getSpansByService(s, serviceName) ==
    SelectSeq(s, LAMBDA span : span.serviceName = serviceName)

getSpansByOperation(s, operationName) ==
    SelectSeq(s, LAMBDA span : span.operationName = operationName)

getTotalSpans(s) == Len(s)

\* clear keeping the most recent span.
clear_keepLast(s) == sliceFrom(s, 0 - 1)

clear(s) == <<>>

getRecentSpans(s, limit) == reverse(sliceFrom(s, 0 - limit))

-----------------------------------------------------------------------------
(* TelemetryStorage.getStats *)

EmptyStats ==
    [ totalSpans |-> 0,
      uniqueServices |-> 0,
      uniqueOperations |-> 0,
      timeRange |-> [earliest |-> Null, latest |-> Null],
      topOperations |-> <<>>,
      errorCount |-> 0,
      successCount |-> 0 ]

\* Position of the entry for name in a Map kept as a sequence of entries in
\* insertion order; 0 when the Map has no such key.
entryIndex(m, name) ==
    LET First(hits) == IF hits = {} THEN 0 ELSE Min(hits)
    IN  First({i \in 1..Len(m) : m[i].name = name})

\* increment adding an entry for every span, as a list would.
increment_alwaysAppend(m, name) == Append(m, [name |-> name, count |-> 1])

\* operations.set(opName, (operations.get(opName) || 0) + 1): a new key goes
\* last, an existing key keeps its place.
increment(m, name) ==
    LET Set(i) == IF i = 0 THEN Append(m, [name |-> name, count |-> 1])
                  ELSE [m EXCEPT ![i].count = @ + 1]
    IN  Set(entryIndex(m, name))

RECURSIVE countOperations(_)
\* The operations Map after the forEach pass, as the sequence of its entries.
countOperations(s) ==
    IF s = <<>> THEN <<>>
    ELSE increment(countOperations(SubSeq(s, 1, Len(s) - 1)), s[Len(s)].operationName)

RECURSIVE countErrors(_)
\* errorCount after the forEach pass.
countErrors(s) ==
    IF s = <<>> THEN 0
    ELSE countErrors(SubSeq(s, 1, Len(s) - 1))
         + (IF s[Len(s)].status = "ERROR" \/ s[Len(s)].status = "error" THEN 1 ELSE 0)

\* successCount counting every span.
countSuccesses_all(s) == Len(s)

RECURSIVE countSuccesses(_)
\* successCount after the forEach pass: the else branch of the status test.
countSuccesses(s) ==
    IF s = <<>> THEN 0
    ELSE countSuccesses(SubSeq(s, 1, Len(s) - 1))
         + (IF s[Len(s)].status = "ERROR" \/ s[Len(s)].status = "error" THEN 0 ELSE 1)

RECURSIVE insertByCount_unstable(_, _)
\* insertByCount placing an entry before the entries of equal count.
insertByCount_unstable(sorted, e) ==
    IF sorted = <<>> THEN <<e>>
    ELSE IF sorted[Len(sorted)].count > e.count THEN Append(sorted, e)
    ELSE Append(insertByCount_unstable(SubSeq(sorted, 1, Len(sorted) - 1), e),
                sorted[Len(sorted)])

RECURSIVE insertByCount(_, _)
\* Insert e into a sequence sorted by (a, b) => b.count - a.count, after every
\* entry that does not compare greater than it (the sort is stable).
insertByCount(sorted, e) ==
    IF sorted = <<>> THEN <<e>>
    ELSE IF sorted[Len(sorted)].count >= e.count THEN Append(sorted, e)
    ELSE Append(insertByCount(SubSeq(sorted, 1, Len(sorted) - 1), e),
                sorted[Len(sorted)])

RECURSIVE sortByCount(_)
\* .sort((a, b) => b.count - a.count)
sortByCount(m) ==
    IF m = <<>> THEN <<>>
    ELSE insertByCount(sortByCount(SubSeq(m, 1, Len(m) - 1)), m[Len(m)])

topOperations(s) == slice(sortByCount(countOperations(s)), 0, TopN)

\* The time range without the "|| null" fallbacks.
timeRange_noFallback(s) ==
    LET Ends(timestamps) ==
            [ earliest |-> stringAt(timestamps, 0),
              latest |-> stringAt(timestamps, Len(timestamps) - 1) ]
    IN  Ends(sortStrings([i \in 1..Len(s) |-> s[i].timestamp]))

timeRange(s) ==
    LET Ends(timestamps) ==
            [ earliest |-> orNull(stringAt(timestamps, 0)),
              latest |-> orNull(stringAt(timestamps, Len(timestamps) - 1)) ]
    IN  Ends(sortStrings([i \in 1..Len(s) |-> s[i].timestamp]))

\* getStats without the early return for an empty store, reporting the
\* unset ends of the time range as they come out of the array.
getStats_noEmptyCase(s) ==
    [ totalSpans |-> Len(s),
      uniqueServices |-> Cardinality({s[i].serviceName : i \in 1..Len(s)}),
      uniqueOperations |-> Len(countOperations(s)),
      timeRange |-> timeRange_noFallback(s),
      topOperations |-> topOperations(s),
      errorCount |-> countErrors(s),
      successCount |-> Len(s) - countErrors(s) ]

getStats(s) ==
    IF Len(s) = 0 THEN EmptyStats
    ELSE [ totalSpans |-> Len(s),
           uniqueServices |-> Cardinality({s[i].serviceName : i \in 1..Len(s)}),
           uniqueOperations |-> Len(countOperations(s)),
           timeRange |-> timeRange(s),
           topOperations |-> topOperations(s),
           errorCount |-> countErrors(s),
           successCount |-> countSuccesses(s) ]

-----------------------------------------------------------------------------
(* OTLPProcessor.processTraces *)

\* The first resource attribute whose key is 'service.name', 0 if none.
serviceNameIndex(attrs) ==
    LET IsServiceName(key) == key.t = "string" /\ key.v = "service.name"
        First(hits) == IF hits = {} THEN 0 ELSE Min(hits)
    IN  First({i \in 1..Len(attrs) : IsServiceName(get(attrs[i], "key"))})

\* extractServiceName: attr.value?.stringValue || 'unknown-service' of the
\* first attribute named service.name, 'unknown-service' when there is no
\* resource, no attribute list or no such attribute.
extractServiceName(resource) ==
    LET OrUnknown(stringValue) ==
            IF truthy(stringValue) THEN stringValue ELSE Str("unknown-service")
        StringValue(value) ==
            OrUnknown(IF nullish(value) THEN Undefined ELSE get(value, "stringValue"))
        Found(attrs, i) == StringValue(IF i = 0 THEN Undefined ELSE get(attrs[i], "value"))
        Find(attrs) ==
            IF truthy(attrs) /\ attrs.t = "array"
            THEN Found(attrs.v, serviceNameIndex(attrs.v))
            ELSE Str("unknown-service")
    IN  Find(get(resource, "attributes"))

\* extractServiceName throws on an attribute list that is not iterable and
\* on a null or undefined entry met before the service.name attribute.
extractServiceNameThrows(resource) ==
    LET Throws(attrs) ==
            /\ truthy(resource) /\ truthy(attrs)
            /\ \/ attrs.t \notin {"array", "string", "text"}
               \/ /\ attrs.t = "array"
                  /\ \E i \in 1..Len(attrs.v) :
                        /\ nullish(attrs.v[i])
                        /\ serviceNameIndex(SubSeq(attrs.v, 1, i - 1)) = 0
    IN  Throws(get(resource, "attributes"))

\* What the traversal does next: decode and append one span, or throw.
SpanStep(span, serviceName) == [span |-> span, serviceName |-> serviceName, kind |-> "span"]
ThrowStep == [kind |-> "throw"]

RECURSIVE concat(_)
\* The concatenation of a sequence of sequences.
concat(ss) == IF ss = <<>> THEN <<>> ELSE concat(SubSeq(ss, 1, Len(ss) - 1)) \o ss[Len(ss)]

\* scopeSteps failing on a scopeSpan that has no spans.
scopeSteps_missingThrows(scopeSpan, serviceName) ==
    IF nullish(scopeSpan) \/ get(scopeSpan, "spans").t # "array" THEN <<ThrowStep>>
    ELSE [i \in 1..Len(get(scopeSpan, "spans").v) |->
            SpanStep(get(scopeSpan, "spans").v[i], serviceName)]

\* The inner loops over one scopeSpan: nothing when it has no spans, one step
\* per span of an array; the characters of a string are spans with no start
\* time, and any other value is not iterable.
scopeSteps(scopeSpan, serviceName) ==
    LET Loop(list) ==
            IF ~truthy(list) THEN <<>>
            ELSE IF list.t = "array"
            THEN [i \in 1..Len(list.v) |-> SpanStep(list.v[i], serviceName)]
            ELSE <<ThrowStep>>
    IN  IF nullish(scopeSpan) THEN <<ThrowStep>> ELSE Loop(get(scopeSpan, "spans"))

\* resourceSteps looking at the first scopeSpan only.
resourceSteps_firstScopeOnly(resourceSpan) ==
    IF nullish(resourceSpan) THEN <<ThrowStep>>
    ELSE IF get(resourceSpan, "scopeSpans").t = "array"
            /\ Len(get(resourceSpan, "scopeSpans").v) > 0
    THEN scopeSteps(get(resourceSpan, "scopeSpans").v[1],
                    extractServiceName(get(resourceSpan, "resource")))
    ELSE <<>>

\* The loop body for one resourceSpan: the service name is resolved first,
\* then every scopeSpan in order; the characters of a string have no spans.
resourceSteps(resourceSpan) ==
    LET Loop(list, serviceName) ==
            IF ~truthy(list) \/ list.t \in {"string", "text"} THEN <<>>
            ELSE IF list.t = "array"
            THEN concat([i \in 1..Len(list.v) |-> scopeSteps(list.v[i], serviceName)])
            ELSE <<ThrowStep>>
        Body(resource) ==
            IF extractServiceNameThrows(resource) THEN <<ThrowStep>>
            ELSE Loop(get(resourceSpan, "scopeSpans"), extractServiceName(resource))
    IN  IF nullish(resourceSpan) THEN <<ThrowStep>> ELSE Body(get(resourceSpan, "resource"))

\* The steps of processTraces(data) in order: none when data or its
\* resourceSpans is falsy (a warning is logged).
traversal(data) ==
    LET Loop(list) ==
            IF ~truthy(list) \/ list.t \in {"string", "text"} THEN <<>>
            ELSE IF list.t = "array"
            THEN concat([i \in 1..Len(list.v) |-> resourceSteps(list.v[i])])
            ELSE <<ThrowStep>>
    IN  IF ~truthy(data) THEN <<>> ELSE Loop(get(data, "resourceSpans"))

RECURSIVE run(_, _, _, _)
\* The steps run in order against the store until one throws: the spans held
\* at the end, the spans appended, and whether the call threw.
run(s, added, steps, cap) ==
    IF steps = <<>> THEN [spans |-> s, added |-> added, threw |-> FALSE]
    ELSE IF steps[1].kind = "throw" \/ convertSpanThrows(steps[1].span)
    THEN [spans |-> s, added |-> added, threw |-> TRUE]
    ELSE LET Store(telemetrySpan) ==
                 run(addSpan(s, telemetrySpan, cap), Append(added, telemetrySpan),
                     Tail(steps), cap)
         IN  Store(convertSpan(steps[1].span, steps[1].serviceName))

\* processTraces undoing its appends when a span cannot be decoded.
processTraces_rollback(s, data, cap) ==
    IF run(s, <<>>, traversal(data), cap).threw
    THEN [spans |-> s, added |-> <<>>, threw |-> TRUE]
    ELSE run(s, <<>>, traversal(data), cap)

processTraces(s, data, cap) == run(s, <<>>, traversal(data), cap)

-----------------------------------------------------------------------------
(* The inputs of the model *)

\* The string of the decimal digits ds.
Digits(ds) == Text([i \in 1..Len(ds) |-> Digit(ds[i])])
Zeros(n) == [i \in 1..n |-> 0]
\* A typed attribute of the wire format.
Attribute(key, field, v) == Obj([value |-> Obj(put(NoFields, field, v)), key |-> Str(key)])

\* A span with byte-array trace id, string timestamps, two attributes, one
\* event and no status, starting at 1000 ms.
WireA ==
    Obj([ attributes |-> Arr(<< Attribute("a", "intValue", Digits(<<5>>)),
                                Attribute("b", "boolValue", Bool(TRUE)) >>),
          events |-> Arr(<< Obj([name |-> Str("tap"),
                                 timeUnixNano |-> Digits(<<1, 0, 0, 1>> \o Zeros(6))]) >>),
          name |-> Str("GET /users"),
          traceId |-> Arr(<<Num(31), Num(10)>>),
          spanId |-> Digits(<<0, 1>>),
          startTimeUnixNano |-> Digits(<<1>> \o Zeros(9)),
          endTimeUnixNano |-> Digits(<<1, 0, 0, 2>> \o Zeros(6)) ])

\* A child span with numeric timestamps that ends before it starts, status
\* code 2.
WireB ==
    Obj([ status |-> Obj([code |-> Num(2)]),
          name |-> Str("GET /users"),
          traceId |-> Digits(<<1, 0>>),
          spanId |-> Digits(<<0, 2>>),
          parentSpanId |-> Digits(<<0, 1>>),
          startTimeUnixNano |-> Num(2000000),
          endTimeUnixNano |-> Num(1000000) ])

\* A span that starts 2.6e20 ns after the epoch, in the year 10209, status
\* code 0, no trace id.
WireC ==
    Obj([ status |-> Obj([code |-> Num(0)]),
          name |-> Str("login"),
          spanId |-> Digits(<<0, 3>>),
          startTimeUnixNano |-> Digits(<<2, 6>> \o Zeros(19)),
          endTimeUnixNano |-> Digits(<<2, 6>> \o Zeros(19)) ])

\* A span with no timestamps.
WireNoTime == Obj([name |-> Str("sync"), spanId |-> Digits(<<0, 4>>)])

\* The spans callers of addSpan append: those the decoder produces from the
\* wire spans above and two with statuses in other spellings.
SampleSpans ==
    LET Samples(a, b, c) ==
            { a, b, c,
              [b EXCEPT !.serviceName = Str("auth"), !.status = "error", !.operationName = "login"],
              [a EXCEPT !.serviceName = Str("auth"), !.status = "Error", !.operationName = "sync"] }
    IN  Samples(convertSpan(WireA, Str("mobile-app")), convertSpan(WireB, Str("mobile-app")),
                convertSpan(WireC, Str("unknown-service")))

Resource(serviceName) ==
    Obj([attributes |-> Arr(<<Attribute("service.name", "stringValue", Str(serviceName))>>)])

\* The payloads posted to /v1/traces.
SamplePayloads ==
    { Null,
      Obj(NoFields),
      \* two groups, the second with no resource and a scope without spans
      Obj([resourceSpans |-> Arr(<<
            Obj([ resource |-> Resource("mobile-app"),
                  scopeSpans |-> Arr(<<Obj([spans |-> Arr(<<WireA, WireB>>)])>>) ]),
            Obj([ scopeSpans |-> Arr(<<Obj(NoFields), Obj([spans |-> Arr(<<WireC>>)])>>) ]) >>)]),
      \* a group without scopeSpans, then one span
      Obj([resourceSpans |-> Arr(<<
            Obj([ resource |-> Resource("mobile-app") ]),
            Obj([ scopeSpans |-> Arr(<<Obj([spans |-> Arr(<<WireC>>)])>>) ]) >>)]),
      \* the second of three spans cannot be decoded
      Obj([resourceSpans |-> Arr(<<
            Obj([ resource |-> Resource("mobile-app"),
                  scopeSpans |-> Arr(<<Obj([spans |-> Arr(<<WireA, WireNoTime, WireB>>)])>>) ]) >>)]) }

OpNames ==
    << "op01", "op02", "op03", "op04", "op05", "op06", "op07",
       "op08", "op09", "op10", "op11", "op12", "op13", "op14" >>

ServiceNames == {Str("mobile-app"), Str("auth"), Str("unknown-service")}
OperationNames == {"GET /users", "login", "sync", "unknown-operation", OpNames[1], OpNames[2]}

-----------------------------------------------------------------------------
Init ==
    /\ spans = <<>>
    /\ maxSpans \in 1..MaxCapacity
    /\ appended = <<>>
    /\ dropped = 0
    /\ op = "new"
    /\ arg = Undefined
    /\ ret = Undefined
    /\ requests = <<>>
    /\ log = <<>>

AddSpan(span) ==
    /\ Len(appended) < MaxAppends
    /\ spans' = addSpan(spans, span, maxSpans)
    /\ appended' = Append(appended, span)
    /\ dropped' = Len(spans) + 1 - Len(spans')
    /\ op' = "addSpan"
    /\ arg' = span
    /\ ret' = Undefined
    /\ UNCHANGED <<maxSpans, requests, log>>

\* POST /v1/traces: processTraces runs to completion, the spans decoded
\* before a failure stay appended.
ProcessTraces(data) ==
    \E r \in {processTraces(spans, data, maxSpans)} :
        /\ Len(appended) + Len(r.added) <= MaxAppends
        /\ spans' = r.spans
        /\ appended' = appended \o r.added
        /\ dropped' = Len(spans) + Len(r.added) - Len(r.spans)
        /\ op' = "processTraces"
        /\ arg' = data
        /\ ret' = IF r.threw THEN Thrown ELSE Undefined
        /\ UNCHANGED <<maxSpans, requests, log>>

GetAllSpans ==
    /\ op' = "getAllSpans"
    /\ arg' = Undefined
    /\ ret' = getAllSpans(spans)
    /\ spans' = afterRead(spans)
    /\ UNCHANGED <<maxSpans, appended, dropped, requests, log>>

GetSpansByService(serviceName) ==
    /\ op' = "getSpansByService"
    /\ arg' = serviceName
    /\ ret' = getSpansByService(spans, serviceName)
    /\ spans' = afterRead(spans)
    /\ UNCHANGED <<maxSpans, appended, dropped, requests, log>>

GetSpansByOperation(operationName) ==
    /\ op' = "getSpansByOperation"
    /\ arg' = operationName
    /\ ret' = getSpansByOperation(spans, operationName)
    /\ spans' = afterRead(spans)
    /\ UNCHANGED <<maxSpans, appended, dropped, requests, log>>

GetTotalSpans ==
    /\ op' = "getTotalSpans"
    /\ arg' = Undefined
    /\ ret' = getTotalSpans(spans)
    /\ spans' = afterRead(spans)
    /\ UNCHANGED <<maxSpans, appended, dropped, requests, log>>

GetStats ==
    /\ op' = "getStats"
    /\ arg' = Undefined
    /\ ret' = getStats(spans)
    /\ spans' = afterRead(spans)
    /\ UNCHANGED <<maxSpans, appended, dropped, requests, log>>

Clear ==
    /\ spans' = clear(spans)
    /\ appended' = <<>>
    /\ dropped' = Len(spans) - Len(spans')
    /\ op' = "clear"
    /\ arg' = Undefined
    /\ ret' = Undefined
    /\ UNCHANGED <<maxSpans, requests, log>>

GetRecentSpans(limit) ==
    /\ op' = "getRecentSpans"
    /\ arg' = limit
    /\ ret' = getRecentSpans(spans, limit)
    /\ spans' = afterRead(spans)
    /\ UNCHANGED <<maxSpans, appended, dropped, requests, log>>

\* getRecentSpans() with the parameter's default value.
GetRecentSpansDefault ==
    /\ op' = "getRecentSpans()"
    /\ arg' = Undefined
    /\ ret' = getRecentSpans(spans, DefaultLimit)
    /\ spans' = afterRead(spans)
    /\ UNCHANGED <<maxSpans, appended, dropped, requests, log>>

Next ==
    \/ \E span \in SampleSpans : AddSpan(span)
    \/ \E data \in SamplePayloads : ProcessTraces(data)
    \/ GetAllSpans
    \/ \E serviceName \in ServiceNames : GetSpansByService(serviceName)
    \/ \E operationName \in OperationNames : GetSpansByOperation(operationName)
    \/ GetTotalSpans
    \/ GetStats
    \/ Clear
    \/ \E limit \in 0..MaxLimit : GetRecentSpans(limit)
    \/ GetRecentSpansDefault

Spec == Init /\ [][Next]_vars

-----------------------------------------------------------------------------
(* A store already filled, for the statistics over many operation names.   *)
(* Any sequence of at most maxSpans spans is the content of a store after   *)
(* that many addSpan calls; the capacity here is large enough that none     *)
(* was evicted.                                                             *)

\* The i-th span of a filled store, of operation OpNames[k].
StatsSpan(k, i) ==
    convertSpan(Obj([ name |-> Str(OpNames[k]),
                      spanId |-> Digits(<<k \div 10, k % 10>>),
                      startTimeUnixNano |-> Num(i * 1000000),
                      endTimeUnixNano |-> Num(i * 1000000) ]),
                Str("mobile-app"))

\* Rotations of the operation names tried in a filled store.
MaxRotation == 2

\* n operations, each once, starting from the (r+1)-th in rotation, followed
\* by one more span of operation x and one more of operation y.
StatsStore(n, r, x, y) ==
    [i \in 1..n |-> StatsSpan(((i - 1 + r) % n) + 1, i)]
        \o <<StatsSpan(x, n + 1), StatsSpan(y, n + 2)>>

InitStats ==
    /\ \E n \in (TopN - 1)..MaxOps : \E r \in 0..MaxRotation : \E x, y \in 1..n :
           spans = StatsStore(n, r, x, y)
    /\ maxSpans = MaxOps + 2
    /\ appended = spans
    /\ dropped = 0
    /\ op = "addSpan"
    /\ arg = spans[Len(spans)]
    /\ ret = Undefined
    /\ requests = <<>>
    /\ log = <<>>

SpecStats == InitStats /\ [][Next]_vars

-----------------------------------------------------------------------------
(* Ingest: processTraces on payloads of every shape *)

\* A span with a start time and nothing else.
WireBare == Obj([startTimeUnixNano |-> Num(3000000)])

\* A span with every part but the start time.
WireNoStart ==
    Obj([ status |-> Obj([code |-> Num(1)]),
          name |-> Str("sync"),
          traceId |-> Digits(<<1, 0>>),
          spanId |-> Digits(<<0, 5>>),
          endTimeUnixNano |-> Num(1000000) ])

Scope(list) == Obj([spans |-> Arr(list)])
Group(resource, scopes) == Obj([resource |-> resource, scopeSpans |-> Arr(scopes)])
Payload(groups) == Obj([resourceSpans |-> Arr(groups)])

\* A resource whose service.name attribute has the given value object.
Named(value) == Obj([attributes |-> Arr(<<Obj([value |-> value, key |-> Str("service.name")])>>)])

\* Payloads with every list present and every span decodable.
ValidPayloads ==
    { Payload(<<>>),
      Payload(<< Group(Resource("mobile-app"), <<Scope(<<WireA>>), Scope(<<WireB>>)>>),
                 Group(Resource("auth"), <<Scope(<<WireC>>)>>) >>),
      Payload(<< Group(Resource("auth"), <<Scope(<<WireB, WireB>>), Scope(<<>>)>>) >>) }

\* Values that are no object, and objects without a resourceSpans sequence.
ShapelessPayloads ==
    { Null, Undefined, Num(5), Str("abc"), Bool(TRUE), Arr(<<>>),
      Obj(NoFields),
      Obj([resourceSpans |-> Null]),
      Obj([resourceSpans |-> Str("abc")]),
      Obj([resourceSpans |-> Num(5)]),
      Obj([resourceSpans |-> Obj(NoFields)]) }

\* Payloads with a group without scopeSpans, or a scope without spans,
\* between two others.
SkippingPayloads ==
    { Payload(<< Group(Resource("mobile-app"), <<Scope(<<WireA>>)>>),
                 Obj([resource |-> Resource("auth")]),
                 Group(Resource("auth"), <<Scope(<<WireB>>)>>) >>),
      Payload(<< Group(Resource("mobile-app"),
                       <<Scope(<<WireA>>), Obj(NoFields), Scope(<<WireC>>)>>) >>) }

\* Payloads whose spans, or whose groups, lack optional parts.
PartialPayloads ==
    { Payload(<< Obj([scopeSpans |-> Arr(<<Scope(<<WireBare>>)>>)]),
                 Group(Obj(NoFields), <<Scope(<<WireC>>)>>) >>),
      Payload(<< Group(Resource("mobile-app"), <<Scope(<<WireBare, WireNoStart, WireB>>)>>) >>) }

\* Payloads of one group of two spans, by the shape of its service.name
\* attribute.
NamingPayloads ==
    { Payload(<<Group(resource, <<Scope(<<WireB>>), Scope(<<WireBare>>)>>)>>) :
        resource \in { Named(Obj([stringValue |-> Str("auth")])),
                       Named(Obj([stringValue |-> Num(42)])),
                       Named(Obj([stringValue |-> Str("")])),
                       Named(Obj([intValue |-> Num(7)])),
                       Obj([attributes |-> Arr(<<Attribute("host", "stringValue", Str("auth"))>>)]),
                       Obj([attributes |-> Arr(<<
                              Attribute("host", "stringValue", Str("mobile-app")),
                              Attribute("service.name", "stringValue", Str("auth")) >>)]) } }

\* Payloads with a span that cannot be decoded: the third of four leaves, in
\* the second group, and the first of two.
FailingPayloads ==
    { Payload(<<Group(Resource("mobile-app"), <<Scope(<<WireA, WireB>>)>>),
                Group(Resource("auth"), <<Scope(<<WireNoStart, WireC>>)>>)>>),
      Payload(<<Group(Resource("auth"), <<Scope(<<WireNoTime>>), Scope(<<WireC>>)>>)>>) }

IngestPayloads ==
    ValidPayloads \cup ShapelessPayloads \cup SkippingPayloads \cup PartialPayloads
        \cup NamingPayloads \cup FailingPayloads

\* The status of the response of POST /v1/traces, by the outcome of the
\* awaited processTraces.
response(outcome) == IF outcome.t = "throw" THEN 500 ELSE 200

NextIngest ==
    \/ \E data \in IngestPayloads : ProcessTraces(data)
    \/ Clear
    \/ GetTotalSpans

SpecIngest == Init /\ [][NextIngest]_vars

-----------------------------------------------------------------------------
(* Decoding a status: extractStatus on the values a wire status can be *)

MaxCode == 3

\* The values of status.code: the numbers from -1 to MaxCode, the string
\* "1", the enum name, null, true and NaN.
WireCodes ==
    { Num(c) : c \in -1..MaxCode }
        \cup { Str("1"), Str("STATUS_CODE_ERROR"), Null, Bool(TRUE), NaN }

\* The values of span.status: absent, null, other values that are no object,
\* and objects with or without a code and a message.
WireStatuses ==
    { Undefined, Null, Num(0), Num(5), Str(""), Str("ERROR"), Bool(FALSE), Arr(<<>>),
      Obj(NoFields), Obj([message |-> Str("boom")]) }
        \cup { Obj([code |-> code]) : code \in WireCodes }
        \cup { Obj([code |-> code, message |-> Str("boom")]) : code \in WireCodes }

\* A span with a start time and the given status.
WithStatus(status) ==
    Obj([status |-> status, name |-> Str("sync"), startTimeUnixNano |-> Num(3000000)])

\* A payload of one such span.
StatusPayload(status) ==
    Payload(<<Group(Resource("auth"), <<Scope(<<WithStatus(status)>>)>>)>>)

ExtractStatus(status) ==
    /\ op' = "extractStatus"
    /\ arg' = status
    /\ ret' = Str(extractStatus(status))
    /\ UNCHANGED <<spans, maxSpans, appended, dropped, requests, log>>

NextDecode ==
    \/ \E status \in WireStatuses : ExtractStatus(status)
    \/ \E status \in WireStatuses : ProcessTraces(StatusPayload(status))

SpecDecode == Init /\ [][NextDecode]_vars

-----------------------------------------------------------------------------
(* The HTTP boundary: requests are received at any time and their handlers *)
(* run on one thread: a handler runs until it returns or awaits, and only   *)
(* then does a handler of another request run.                             *)

\* Requests received in one run.
MaxRequests == 3
\* Spans ingested in one run.
MaxIngested == 4

\* The bodies posted to /v1/traces: two payloads of two spans and a payload
\* whose second span cannot be decoded.
HttpPayloads ==
    { Payload(<<Group(Resource("mobile-app"), <<Scope(<<WireA>>), Scope(<<WireB>>)>>)>>),
      Payload(<<Group(Resource("auth"), <<Scope(<<WireC, WireBare>>)>>)>>),
      Payload(<<Group(Resource("auth"), <<Scope(<<WireC, WireNoStart>>)>>)>>) }

\* processTraces with an await after every span.
slices_awaitEachSpan(steps) ==
    IF steps = <<>> THEN << <<>> >> ELSE [i \in 1..Len(steps) |-> <<steps[i]>>]

\* The steps of processTraces cut where it gives up control: it is async but
\* awaits nothing, so all its steps run in one piece.
slices(steps) == <<steps>>

\* A request as received: its handler has not started.
Request(route, body) ==
    [body |-> body, status |-> 0, outcome |-> Undefined, route |-> route,
     pc |-> "received", todo |-> <<>>]

\* One store access of the handler of a request.
Access(id, method) == [request |-> id, access |-> method]

Receive(route, body) ==
    /\ Len(requests) < MaxRequests
    /\ requests' = Append(requests, Request(route, body))
    /\ UNCHANGED <<spans, maxSpans, appended, dropped, op, arg, ret, log>>

\* The handler of POST /v1/traces up to its await: it calls processTraces,
\* which runs until it gives up control.
PostTraces(id) ==
    /\ requests[id].route = "POST /v1/traces"
    /\ requests[id].pc \in {"received", "running"}
    /\ \E todo \in { IF requests[id].pc = "received"
                      THEN slices(traversal(requests[id].body))
                      ELSE requests[id].todo } :
       \E r \in {run(spans, <<>>, todo[1], maxSpans)} :
          /\ Len(SelectSeq(log, LAMBDA a : a.access = "addSpan")) + Len(r.added)
                <= MaxIngested
          /\ spans' = r.spans
          /\ appended' = appended \o r.added
          /\ dropped' = Len(spans) + Len(r.added) - Len(r.spans)
          /\ log' = log \o [i \in 1..Len(r.added) |-> Access(id, "addSpan")]
          /\ requests' =
                [requests EXCEPT ![id] =
                    IF r.threw \/ Len(todo) = 1
                    THEN [@ EXCEPT !.pc = "awaiting", !.todo = <<>>,
                                   !.outcome = IF r.threw THEN Thrown ELSE Undefined]
                    ELSE [@ EXCEPT !.pc = "running", !.todo = Tail(todo)]]
          /\ op' = "POST /v1/traces"
          /\ arg' = requests[id].body
          /\ ret' = IF r.threw THEN Thrown ELSE Undefined
          /\ UNCHANGED maxSpans

\* The handler of POST /v1/traces after its await: 200, or 500 from the
\* catch block.
Respond(id) ==
    /\ requests[id].pc = "awaiting"
    /\ requests' = [requests EXCEPT ![id].pc = "done",
                                    ![id].status = response(requests[id].outcome)]
    /\ UNCHANGED <<spans, maxSpans, appended, dropped, op, arg, ret, log>>

\* The body of the response of GET /telemetry/spans with only the spans
\* returned counted.
fetchAll_countReturned(s) ==
    [spans |-> slice(getAllSpans(s), 0, FetchCap),
     total |-> Len(slice(getAllSpans(s), 0, FetchCap))]

\* The body of the response of GET /telemetry/spans.
fetchAll(s) ==
    LET Body(all) == [spans |-> slice(all, 0, FetchCap), total |-> Len(all)]
    IN  Body(getAllSpans(s))

\* The handler of GET /telemetry/spans.
GetSpans(id) ==
    /\ requests[id].route = "GET /telemetry/spans"
    /\ requests[id].pc = "received"
    /\ op' = "GET /telemetry/spans"
    /\ arg' = Undefined
    /\ ret' = [t |-> "json", v |-> fetchAll(spans)]
    /\ log' = Append(log, Access(id, "getAllSpans"))
    /\ requests' = [requests EXCEPT ![id].pc = "done", ![id].status = 200]
    /\ UNCHANGED <<spans, maxSpans, appended, dropped>>

\* The handler of DELETE /telemetry/clear.
DeleteClear(id) ==
    /\ requests[id].route = "DELETE /telemetry/clear"
    /\ requests[id].pc = "received"
    /\ spans' = clear(spans)
    /\ appended' = <<>>
    /\ dropped' = Len(spans) - Len(spans')
    /\ op' = "DELETE /telemetry/clear"
    /\ arg' = Undefined
    /\ ret' = Undefined
    /\ log' = Append(log, Access(id, "clear"))
    /\ requests' = [requests EXCEPT ![id].pc = "done", ![id].status = 200]
    /\ UNCHANGED maxSpans

NextHttp ==
    \/ \E body \in HttpPayloads : Receive("POST /v1/traces", body)
    \/ Receive("GET /telemetry/spans", Undefined)
    \/ Receive("DELETE /telemetry/clear", Undefined)
    \/ \E id \in 1..Len(requests) : PostTraces(id)
    \/ \E id \in 1..Len(requests) : Respond(id)
    \/ \E id \in 1..Len(requests) : GetSpans(id)
    \/ \E id \in 1..Len(requests) : DeleteClear(id)

SpecHttp == Init /\ [][NextHttp]_vars

-----------------------------------------------------------------------------
(* The HTTP boundary over a store that holds about FetchCap spans *)

\* Stores of up to MaxExcess spans, and of up to MaxExcess spans fewer or
\* more than FetchCap.
MaxExcess == 2

\* A store of n spans appended in the order of their start times.
FilledStore(n) == [i \in 1..n |-> StatsSpan((i % MaxOps) + 1, i)]

InitFetch ==
    /\ \E n \in (0..MaxExcess) \cup ((FetchCap - MaxExcess)..(FetchCap + MaxExcess)) :
          spans = FilledStore(n)
    /\ maxSpans = FetchCap + MaxExcess
    /\ appended = spans
    /\ dropped = 0
    /\ op = "new"
    /\ arg = Undefined
    /\ ret = Undefined
    /\ requests = <<>>
    /\ log = <<>>

\* The body posted to /v1/traces: a payload of two spans.
FetchPayloads ==
    { Payload(<<Group(Resource("auth"), <<Scope(<<WireC, WireBare>>)>>)>>) }

NextFetch ==
    \/ \E body \in FetchPayloads : Receive("POST /v1/traces", body)
    \/ Receive("GET /telemetry/spans", Undefined)
    \/ Receive("DELETE /telemetry/clear", Undefined)
    \/ \E id \in 1..Len(requests) : PostTraces(id)
    \/ \E id \in 1..Len(requests) : Respond(id)
    \/ \E id \in 1..Len(requests) : GetSpans(id)
    \/ \E id \in 1..Len(requests) : DeleteClear(id)

SpecFetch == InitFetch /\ [][NextFetch]_vars

-----------------------------------------------------------------------------
(* The decoders of OTLPProcessor, called one at a time *)

MaxBytes == 2

\* Byte values with one and with two hexadecimal digits.
SampleBytes == {0, 10, 15, 16, 31, 255}

RECURSIVE ByteArrays(_)
\* The byte sequences of length n over SampleBytes.
ByteArrays(n) ==
    IF n = 0 THEN {<<>>}
    ELSE {Append(bs, Num(b)) : bs \in ByteArrays(n - 1), b \in SampleBytes}

\* Identifiers as the wire carries them: byte arrays, strings, nothing.
Identifiers ==
    {Arr(bs) : bs \in UNION {ByteArrays(n) : n \in 0..MaxBytes}}
      \cup {Text(<<>>), Text(<<49, 102, 48, 97>>), Text(<<65, 66>>), Undefined, Null}

\* this.bytesToHex(bytes), for the argument the initial state holds.
BytesToHex ==
    /\ op = "new"
    /\ arg \in Identifiers
    /\ op' = "bytesToHex"
    /\ ret' = Text(bytesToHex(arg))
    /\ UNCHANGED <<arg, spans, maxSpans, appended, dropped, requests, log>>

\* Nanosecond counts as numbers and as strings of decimal digits: whole
\* and broken milliseconds, negative counts, timestamps of the year 2023.
Nanos ==
    {Num(n) : n \in {0, 999999, 1000000, 1999999, 2000000, 1000000000, -1, -1500000, -2000000}}
      \cup {Digits(ds) : ds \in
              { <<0>>, <<9, 9, 9, 9, 9, 9>>, <<1, 9, 9, 9, 9, 9, 9>>, <<2>> \o Zeros(6),
                <<1>> \o Zeros(9),
                <<1, 7>> \o Zeros(8) \o <<1, 2, 3, 4, 5, 6, 7, 8, 9>>,
                <<1, 7>> \o Zeros(8) \o <<1, 2, 3, 9, 9, 9, 9, 9, 9>>,
                <<1, 7>> \o Zeros(8) \o <<1, 3>> \o Zeros(7),
                <<1, 7>> \o Zeros(8) \o <<1, 3, 1>> \o Zeros(6) }}
      \cup {Text(<<Code("-")>> \o Digits(ds).v) : ds \in {<<1>>, <<1, 5>> \o Zeros(5), <<2>> \o Zeros(6)}}

\* this.nanosToMillis(nanos)
NanosToMillis ==
    /\ op = "new"
    /\ arg \in Nanos
    /\ op' = "nanosToMillis"
    /\ ret' = nanosToMillis(arg)
    /\ UNCHANGED <<arg, spans, maxSpans, appended, dropped, requests, log>>

MaxAttributes == 2

\* Attribute values of the wire format: absent, null, one typed field, two
\* typed fields, no typed field, and a value that is no object.
AttributeValues ==
    { Undefined, Null, Bool(TRUE),
      Obj(put(NoFields, "stringValue", Text(<<120>>))),
      Obj(put(NoFields, "stringValue", Text(<<>>))),
      Obj(put(NoFields, "intValue", Digits(<<5>>))),
      Obj(put(NoFields, "intValue", Num(7))),
      Obj(put(NoFields, "doubleValue", Num(2))),
      Obj(put(NoFields, "boolValue", Bool(TRUE))),
      Obj(put(NoFields, "boolValue", Bool(FALSE))),
      Obj(put(put(NoFields, "intValue", Digits(<<5>>)), "stringValue", Text(<<120>>))),
      Obj(put(put(NoFields, "boolValue", Bool(TRUE)), "intValue", Digits(<<4, 2>>))),
      Obj(NoFields),
      Obj(put(NoFields, "arrayValue", Obj(put(NoFields, "values", Arr(<<>>))))) }

\* Attribute entries with a key, with an empty key and without a key.
AttributeEntries ==
    {Obj(put(put(NoFields, "value", v), "key", Str(k))) : k \in {"a", "b"}, v \in AttributeValues}
      \cup { Obj(put(NoFields, "value", Obj(put(NoFields, "intValue", Digits(<<5>>))))),
             Attribute("", "intValue", Digits(<<5>>)) }

\* The entries the lists of several entries are made of.
ListedEntries ==
    {Obj(put(put(NoFields, "value", v), "key", Str(k))) :
        k \in {"a", "b"},
        v \in { Undefined, Bool(TRUE),
                Obj(put(NoFields, "stringValue", Text(<<120>>))),
                Obj(put(NoFields, "intValue", Digits(<<5>>))),
                Obj(put(NoFields, "boolValue", Bool(TRUE))) }}
      \cup {Obj(put(NoFields, "value", Obj(put(NoFields, "intValue", Digits(<<5>>)))))}

RECURSIVE AttributeLists(_)
\* The attribute lists of length n.
AttributeLists(n) ==
    IF n = 0 THEN {<<>>}
    ELSE {Append(l, e) : l \in AttributeLists(n - 1), e \in ListedEntries}

\* The attribute lists sent, and no list.
Attributes ==
    {Undefined, Null}
      \cup {Arr(<<e>>) : e \in AttributeEntries}
      \cup {Arr(l) : l \in UNION {AttributeLists(n) : n \in 0..MaxAttributes}}

\* this.extractAttributes(attributes)
ExtractAttributes ==
    /\ op = "new"
    /\ arg \in Attributes
    /\ op' = "extractAttributes"
    /\ ret' = Obj(extractAttributes(arg))
    /\ UNCHANGED <<arg, spans, maxSpans, appended, dropped, requests, log>>

MaxEvents == 2

\* Wire events with and without a name, with the time as a string and as a
\* number, with and without attributes.
WireEvents ==
    { Obj([name |-> Str("tap"), timeUnixNano |-> Digits(<<1, 0, 0, 1>> \o Zeros(6))]),
      Obj([name |-> Str("tap"), timeUnixNano |-> Num(1999999)]),
      Obj([timeUnixNano |-> Digits(<<1, 0, 0, 1>> \o Zeros(6))]),
      Obj([name |-> Str(""), timeUnixNano |-> Num(2000000)]),
      Obj([ attributes |-> Arr(<< Attribute("a", "stringValue", Text(<<120>>)),
                                  Attribute("a", "intValue", Digits(<<5>>)),
                                  Attribute("b", "boolValue", Bool(TRUE)) >>),
            name |-> Str("scroll"),
            timeUnixNano |-> Digits(<<1, 0, 0, 2>> \o Zeros(6)) ]),
      Obj([ attributes |-> Arr(<<>>),
            name |-> Str("scroll"),
            timeUnixNano |-> Num(1000000) ]) }

RECURSIVE EventLists(_)
\* The lists of n events.
EventLists(n) ==
    IF n = 0 THEN {<<>>}
    ELSE {Append(l, e) : l \in EventLists(n - 1), e \in WireEvents}

\* The events lists sent, and no list.
Events == {Undefined, Null} \cup {Arr(l) : l \in UNION {EventLists(n) : n \in 0..MaxEvents}}

\* this.extractEvents(events)
ExtractEvents ==
    /\ op = "new"
    /\ arg \in Events
    /\ op' = "extractEvents"
    /\ ret' = Arr(extractEvents(arg))
    /\ UNCHANGED <<arg, spans, maxSpans, appended, dropped, requests, log>>

\* Wire spans with each kind of parent identifier (absent, null, empty
\* string, empty byte sequence, string, bytes) and each kind of interval
\* (end after, within the same millisecond as, before the start; no end;
\* nanosecond timestamps of the year 2023).
WireSpans ==
    { Obj([ name |-> Str("sync"),
            spanId |-> Digits(<<0, 7>>),
            parentSpanId |-> parent,
            startTimeUnixNano |-> times[1],
            endTimeUnixNano |-> times[2] ]) :
        parent \in {Undefined, Null, Text(<<>>), Arr(<<>>), Digits(<<0, 1>>), Arr(<<Num(1), Num(171)>>)},
        times \in { <<Digits(<<1>> \o Zeros(9)), Digits(<<1, 0, 0, 2>> \o Zeros(6))>>,
                    <<Digits(<<1>> \o Zeros(9)), Digits(<<1, 0, 0, 0, 9, 9, 9, 9, 9, 9>>)>>,
                    <<Num(3000000), Num(1000000)>>,
                    <<Num(1999999), Num(2000000)>>,
                    <<Digits(<<1>> \o Zeros(9)), Undefined>>,
                    <<Digits(<<1, 7>> \o Zeros(8) \o <<1, 2, 3, 9, 9, 9, 9, 9, 9>>),
                      Digits(<<1, 7>> \o Zeros(8) \o <<1, 2, 4>> \o Zeros(6))>> } }

\* processTraces on a payload of the one span the initial state holds.
IngestSpan ==
    /\ op = "new"
    /\ arg \in WireSpans
    /\ ProcessTraces(Payload(<<Group(Resource("auth"), <<Scope(<<arg>>)>>)>>))

\* A processor and the argument of one call of a decoder.
InitCodec ==
    /\ spans = <<>>
    /\ maxSpans = MaxCapacity
    /\ appended = <<>>
    /\ dropped = 0
    /\ op = "new"
    /\ arg \in Identifiers \cup Nanos \cup Attributes \cup Events \cup WireSpans
    /\ ret = Undefined
    /\ requests = <<>>
    /\ log = <<>>

NextCodec ==
    \/ BytesToHex
    \/ NanosToMillis
    \/ ExtractAttributes
    \/ ExtractEvents
    \/ IngestSpan

SpecCodec == InitCodec /\ [][NextCodec]_vars

-----------------------------------------------------------------------------
(* The store under appends, clears, every read and metrics ingest *)

\* processMetrics: the data is logged; the storage is not used.
processMetrics(s, data) == s

\* POST /v1/metrics
ProcessMetrics(data) ==
    /\ spans' = processMetrics(spans, data)
    /\ op' = "processMetrics"
    /\ arg' = data
    /\ ret' = Undefined
    /\ UNCHANGED <<maxSpans, appended, dropped, requests, log>>

NextStore ==
    \/ \E span \in SampleSpans : AddSpan(span)
    \/ GetAllSpans
    \/ \E serviceName \in ServiceNames : GetSpansByService(serviceName)
    \/ \E operationName \in OperationNames : GetSpansByOperation(operationName)
    \/ GetTotalSpans
    \/ GetStats
    \/ Clear
    \/ \E limit \in 0..MaxLimit : GetRecentSpans(limit)
    \/ GetRecentSpansDefault
    \/ \E data \in {Null, Obj(NoFields), Obj([resourceMetrics |-> Arr(<<>>)])} : ProcessMetrics(data)

SpecStore == Init /\ [][NextStore]_vars

-----------------------------------------------------------------------------
(* A store of capacity 0: addSpan with this.maxSpans = 0 *)

InitZero ==
    /\ spans = <<>>
    /\ maxSpans = 0
    /\ appended = <<>>
    /\ dropped = 0
    /\ op = "new"
    /\ arg = Undefined
    /\ ret = Undefined
    /\ requests = <<>>
    /\ log = <<>>

NextZero ==
    \/ \E span \in SampleSpans : AddSpan(span)
    \/ GetTotalSpans
    \/ Clear

SpecZero == InitZero /\ [][NextZero]_vars

-----------------------------------------------------------------------------
(* Properties *)

\* The last n elements of s.
LastN(s, n) == SubSeq(s, Len(s) - n + 1, Len(s))

\* The indices of s, in increasing order, as a sequence.
RECURSIVE Ascending(_)
Ascending(S) ==
    IF S = {} THEN <<>> ELSE Append(Ascending(S \ {Max(S)}), Max(S))

\* The upper-case form of a status string.
Upper(str) ==
    CASE str \in {"ERROR", "error", "Error"} -> "ERROR"
      [] str \in {"OK", "ok"} -> "OK"
      [] OTHER -> str

\* C1: after any sequence of addSpan and clear calls on a store of capacity
\* maxSpans >= 1, the held sequence is exactly the last min(maxSpans, n) spans
\* appended since the most recent clear, in append order; an addSpan drops
\* spans only when the store is over capacity, and then the oldest ones.
C1_FifoContents ==
    maxSpans >= 1 =>
        /\ spans = LastN(appended, Min({maxSpans, Len(appended)}))
        /\ (op = "addSpan" => dropped = IF Len(appended) > maxSpans THEN 1 ELSE 0)

\* C1 witness: an addSpan on a full store of capacity >= 2 evicted the oldest
\* span, which differs from the one now oldest.
C1_Witness ==
    /\ op = "addSpan" /\ dropped = 1 /\ maxSpans >= 2
    /\ Len(appended) = maxSpans + 1
    /\ appended[1] # appended[2]
    /\ spans[1] = appended[2]

\* C2: the store never holds more than maxSpans spans, and an append that
\* would exceed maxSpans leaves exactly maxSpans.
C2_Bounded ==
    /\ [](Len(spans) <= maxSpans)
    /\ [][(Len(appended') > Len(appended)
            /\ Len(spans) + Len(appended') - Len(appended) > maxSpans)
          => Len(spans') = maxSpans]_vars

\* C2 witness: an addSpan on a full store left it full.
C2_Witness ==
    op = "addSpan" /\ Len(appended) > maxSpans /\ Len(spans) = maxSpans /\ dropped = 1

\* C3: getAllSpans returns every held span exactly once, most recently
\* appended first; after S1 then S2 it returns [S2, S1].
C3_GetAllSpans ==
    op = "getAllSpans" =>
        /\ Len(ret) = Len(spans)
        /\ \A i \in 1..Len(spans) : ret[i] = spans[Len(spans) + 1 - i]
        /\ (Len(appended) = 2 /\ maxSpans >= 2 => ret = <<appended[2], appended[1]>>)

\* C3 witness: getAllSpans after two different spans were appended.
C3_Witness ==
    /\ op = "getAllSpans" /\ Len(appended) = 2 /\ maxSpans >= 2
    /\ appended[1] # appended[2]
    /\ ret[1] = appended[2]

\* C4: getRecentSpans(limit) returns exactly min(limit, count) spans, the
\* most recently appended ones, most recent first, for every limit >= 0;
\* without an argument it behaves as limit = 50.
C4_GetRecentSpans ==
    LET limit == IF op = "getRecentSpans" THEN arg ELSE DefaultLimit
        n == Min({limit, Len(spans)})
    IN  op \in {"getRecentSpans", "getRecentSpans()"} =>
            /\ Len(ret) = n
            /\ \A i \in 1..n : ret[i] = spans[Len(spans) + 1 - i]

\* C4 failing case: getRecentSpans(0) on a store holding two spans returned
\* both of them.
C4_Witness ==
    /\ op = "getRecentSpans" /\ arg = 0
    /\ Len(spans) = 2
    /\ ret = <<spans[2], spans[1]>>

\* C5: getSpansByService / getSpansByOperation return exactly the held spans
\* whose serviceName / operationName equals the argument, in insertion
\* order, all of them.
C5_Filters ==
    /\ op = "getSpansByService" =>
        LET idx == Ascending({i \in 1..Len(spans) : spans[i].serviceName = arg})
        IN  ret = [k \in 1..Len(idx) |-> spans[idx[k]]]
    /\ op = "getSpansByOperation" =>
        LET idx == Ascending({i \in 1..Len(spans) : spans[i].operationName = arg})
        IN  ret = [k \in 1..Len(idx) |-> spans[idx[k]]]

\* C5 witness: a filter by service that returned the newest of the two held
\* spans and not the older one, after a matching span had been evicted.
C5_Witness ==
    /\ op = "getSpansByService"
    /\ Len(appended) > Len(spans)
    /\ appended[1].serviceName = arg
    /\ Len(spans) = 2
    /\ Len(ret) = 1
    /\ ret[1] = spans[2]

\* C6: clear leaves the store empty: until the next append the count is 0,
\* getAllSpans is empty and getStats is the empty-state result; what is held
\* later was appended after the clear.
C6_Clear ==
    /\ op = "clear" => spans = <<>>
    /\ appended = <<>> =>
        /\ spans = <<>>
        /\ op = "getTotalSpans" => ret = 0
        /\ op = "getAllSpans" => ret = <<>>
        /\ op \in {"getRecentSpans", "getRecentSpans()"} => ret = <<>>
        /\ op \in {"getSpansByService", "getSpansByOperation"} => ret = <<>>
        /\ op = "getStats" =>
             /\ ret.totalSpans = 0
             /\ ret.topOperations = <<>>
             /\ ret.timeRange.earliest.t = "null"
             /\ ret.timeRange.latest.t = "null"
    /\ \A i \in 1..Len(spans) : \E j \in 1..Len(appended) : spans[i] = appended[j]

\* C6 witness: getStats right after a clear that discarded spans.
C6_Witness ==
    op = "getStats" /\ appended = <<>> /\ dropped >= 2 /\ ret.totalSpans = 0

\* C7: on a store holding no spans getStats returns zero counts, null for
\* both ends of the time range and an empty topOperations.
C7_EmptyStats ==
    (op = "getStats" /\ Len(spans) = 0) =>
        /\ ret.totalSpans = 0
        /\ ret.uniqueServices = 0
        /\ ret.uniqueOperations = 0
        /\ ret.timeRange.earliest.t = "null"
        /\ ret.timeRange.latest.t = "null"
        /\ ret.topOperations = <<>>
        /\ ret.errorCount = 0
        /\ ret.successCount = 0
        /\ DOMAIN ret = {"totalSpans", "uniqueServices", "uniqueOperations",
                         "timeRange", "topOperations", "errorCount", "successCount"}

\* C7 witness: getStats on a store that was never appended to.
C7_Witness ==
    op = "getStats" /\ spans = <<>> /\ appended = <<>> /\ dropped = 0

\* C8: errorCount is the number of held spans whose status equals "ERROR"
\* compared without regard to case, and successCount the number of the
\* other held spans.
C8_ErrorCount ==
    op = "getStats" =>
        LET errors == {i \in 1..Len(spans) : Upper(spans[i].status) = "ERROR"}
        IN  /\ ret.errorCount = Cardinality(errors)
            /\ ret.successCount = Len(spans) - Cardinality(errors)

\* C8 failing case: of two held spans with the statuses "Error" and "ERROR"
\* getStats counted one error and one success.
C8_Witness ==
    /\ op = "getStats" /\ Len(spans) = 2
    /\ spans[1].status = "Error" /\ spans[2].status = "ERROR"
    /\ ret.errorCount = 1 /\ ret.successCount = 1

\* C9: topOperations holds min(10, number of distinct operation names)
\* entries, each a distinct held operationName with its exact count, by
\* count non-increasing, equal counts in order of first occurrence; no name
\* left out has a larger count than a name listed.
C9_TopOperations ==
    op = "getStats" =>
        LET top == ret.topOperations
            names == {spans[i].operationName : i \in 1..Len(spans)}
            Count(o) == Cardinality({i \in 1..Len(spans) : spans[i].operationName = o})
            First(o) == Min({i \in 1..Len(spans) : spans[i].operationName = o})
            listed == {top[k].name : k \in 1..Len(top)}
        IN  /\ Len(top) = Min({TopN, Cardinality(names)})
            /\ \A k \in 1..Len(top) :
                  top[k].name \in names /\ top[k].count = Count(top[k].name)
            /\ \A j, k \in 1..Len(top) :
                  j < k =>
                    /\ top[j].name # top[k].name
                    /\ \/ top[j].count > top[k].count
                       \/ /\ top[j].count = top[k].count
                          /\ First(top[j].name) < First(top[k].name)
            /\ \A o \in names \ listed : \A k \in 1..Len(top) : Count(o) <= top[k].count

\* C9 witness: getStats on a store of more than ten operation names, two of
\* them held twice, the other listed ones once.
C9_Witness ==
    /\ op = "getStats"
    /\ Cardinality({spans[i].operationName : i \in 1..Len(spans)}) > TopN
    /\ Len(ret.topOperations) = TopN
    /\ ret.topOperations[1].count = 2
    /\ ret.topOperations[2].count = 2
    /\ ret.topOperations[3].count = 1
    /\ ret.topOperations[TopN].count = 1

\* C10: on a non-empty store the time range's earliest and latest are the
\* smallest and largest timestamp strings held, and they are the timestamps
\* of the held spans with the smallest and the largest startTime.
C10_TimeRange ==
    (op = "getStats" /\ Len(spans) > 0) =>
        LET held == 1..Len(spans)
            earliest == ret.timeRange.earliest
            latest == ret.timeRange.latest
        IN  /\ earliest.t = "text" /\ latest.t = "text"
            /\ \E i \in held : earliest.v = spans[i].timestamp
            /\ \E i \in held : latest.v = spans[i].timestamp
            /\ \A i \in held : strLE(earliest.v, spans[i].timestamp)
            /\ \A i \in held : strLE(spans[i].timestamp, latest.v)
            /\ strLE(earliest.v, latest.v)
            /\ \E i \in held :
                  /\ earliest.v = spans[i].timestamp
                  /\ \A j \in held : ~timeLess(spans[j].startTime.v, spans[i].startTime.v)
            /\ \E i \in held :
                  /\ latest.v = spans[i].timestamp
                  /\ \A j \in held : ~timeLess(spans[i].startTime.v, spans[j].startTime.v)

\* C10 failing case: of two held spans the one that starts later, in a year
\* past 9999, gave the earliest timestamp, and the one that starts first the
\* latest.
C10_Witness ==
    /\ op = "getStats" /\ Len(spans) = 2
    /\ timeLess(spans[1].startTime.v, spans[2].startTime.v)
    /\ civil(spans[2].startTime.v.day).year > 9999
    /\ ret.timeRange.earliest.v = spans[2].timestamp
    /\ ret.timeRange.latest.v = spans[1].timestamp

\* C11: getStats is computed from the held spans only: totalSpans is the
\* number held, uniqueServices and uniqueOperations the numbers of distinct
\* serviceName and operationName values among them, whatever was appended
\* and evicted or cleared before.
C11_StatsCounts ==
    op = "getStats" =>
        /\ ret.totalSpans = Len(spans)
        /\ ret.uniqueServices = Cardinality({spans[i].serviceName : i \in 1..Len(spans)})
        /\ ret.uniqueOperations = Cardinality({spans[i].operationName : i \in 1..Len(spans)})
        /\ ret.uniqueServices <= Cardinality({appended[i].serviceName : i \in 1..Len(appended)})
        /\ ret.uniqueOperations <= Cardinality({appended[i].operationName : i \in 1..Len(appended)})

\* C11 witness: getStats on a store of two spans of one service and one
\* operation, after a span of another service and operation was evicted.
C11_Witness ==
    /\ op = "getStats" /\ Len(appended) = 3 /\ Len(spans) = 2
    /\ spans[1].serviceName = spans[2].serviceName
    /\ spans[1].operationName = spans[2].operationName
    /\ appended[1].serviceName # spans[1].serviceName
    /\ appended[1].operationName # spans[1].operationName
    /\ ret.totalSpans = 2 /\ ret.uniqueServices = 1 /\ ret.uniqueOperations = 1

\* The elements of a list of the payload; a list that is absent has none.
ListOf(v) == IF v.t = "array" THEN v.v ELSE <<>>

GroupAt(data, i) == ListOf(get(data, "resourceSpans"))[i]
ScopeAt(data, i, j) == ListOf(get(GroupAt(data, i), "scopeSpans"))[j]
LeafAt(data, key) == ListOf(get(ScopeAt(data, key[1], key[2]), "spans"))[key[3]]

\* The positions <<group, scope, span>> of the leaf spans of a payload.
LeafKeys(data) ==
    UNION { UNION { { <<i, j, k>> :
                        k \in 1..Len(ListOf(get(ScopeAt(data, i, j), "spans"))) } :
                    j \in 1..Len(ListOf(get(GroupAt(data, i), "scopeSpans"))) } :
            i \in 1..Len(ListOf(get(data, "resourceSpans"))) }

\* Nested traversal order of two positions.
Before(a, b) ==
    \/ a[1] < b[1]
    \/ a[1] = b[1] /\ a[2] < b[2]
    \/ a[1] = b[1] /\ a[2] = b[2] /\ a[3] < b[3]

RECURSIVE InOrder(_)
InOrder(K) ==
    IF K = {} THEN <<>>
    ELSE LET first == CHOOSE a \in K : \A b \in K \ {a} : Before(a, b)
         IN  <<first>> \o InOrder(K \ {first})

\* The leaf positions of a payload in nested traversal order.
Leaves(data) == InOrder(LeafKeys(data))

\* The record of the leaf at a position: the span decoded, with the service
\* name of its group.
RecordAt(data, key) ==
    convertSpan(LeafAt(data, key), extractServiceName(get(GroupAt(data, key[1]), "resource")))

\* The records of the first n leaves of a payload.
Records(data, n) == [m \in 1..n |-> RecordAt(data, Leaves(data)[m])]

\* C12: one processTraces call on a valid payload with N leaf spans appends
\* exactly N records, one per leaf in nested traversal order, each with the
\* serviceName of its resource group, and does not fail; equal leaves are
\* appended as often as they occur.
C12_IngestOrder ==
    [][(op' = "processTraces" /\ arg' \in ValidPayloads) =>
          /\ ret'.t = "undefined"
          /\ appended' = appended \o Records(arg', Cardinality(LeafKeys(arg')))
          /\ spans' = LastN(appended', Min({maxSpans, Len(appended')}))]_vars

\* C12 witness: a payload of two groups and three scopes left its three
\* spans in order, the first for mobile-app and the last for auth.
C12_Witness ==
    /\ op = "processTraces" /\ arg \in ValidPayloads
    /\ Len(ListOf(get(arg, "resourceSpans"))) = 2
    /\ Len(appended) = 3 /\ spans = appended
    /\ appended[1].serviceName = Str("mobile-app")
    /\ appended[1].operationName = "GET /users" /\ appended[1].status = "OK"
    /\ appended[2].serviceName = Str("mobile-app") /\ appended[2].status = "ERROR"
    /\ appended[3].serviceName = Str("auth") /\ appended[3].operationName = "login"

\* A payload that is no object, or whose resourceSpans is no sequence.
Shapeless(data) == data.t # "object" \/ get(data, "resourceSpans").t # "array"

\* C13: processTraces on a payload that is not an object, or is an object
\* whose resourceSpans is absent or not a sequence, completes without
\* failure and leaves the store as it was, and the response is a success.
C13_ShapelessPayload ==
    [][(op' = "processTraces" /\ Shapeless(arg')) =>
          /\ ret'.t = "undefined"
          /\ response(ret') = 200
          /\ spans' = spans
          /\ appended' = appended]_vars

\* C13 failing case: processTraces threw on an object whose resourceSpans is
\* a number, after a span had been stored.
C13_Witness ==
    /\ op = "processTraces"
    /\ arg = Obj([resourceSpans |-> Num(5)])
    /\ ret.t = "throw" /\ response(ret) = 500
    /\ Len(spans) >= 1

\* The groups of a payload that lack scopeSpans, and the positions
\* <<group, scope>> of its scopes that lack spans.
GroupsSkipped(data) ==
    { i \in 1..Len(ListOf(get(data, "resourceSpans"))) :
        get(GroupAt(data, i), "scopeSpans").t = "undefined" }
ScopesSkipped(data) ==
    UNION { { <<i, j>> : j \in { n \in 1..Len(ListOf(get(GroupAt(data, i), "scopeSpans"))) :
                                  get(ScopeAt(data, i, n), "spans").t = "undefined" } } :
            i \in 1..Len(ListOf(get(data, "resourceSpans"))) }

\* C14: a processTraces call on a payload with a group that lacks scopeSpans
\* or a scope that lacks spans does not fail, and appends the record of
\* every leaf span of the sibling groups before and after it, in order.
C14_SkipMissing ==
    [][(/\ op' = "processTraces" /\ arg' \in SkippingPayloads
        /\ GroupsSkipped(arg') \cup ScopesSkipped(arg') # {}) =>
          /\ ret'.t = "undefined"
          /\ appended' = appended \o Records(arg', Cardinality(LeafKeys(arg')))
          /\ spans' = LastN(appended', Min({maxSpans, Len(appended')}))]_vars

\* C14 witnesses: the second of three groups had no scopeSpans and the spans
\* of the first and the third group were appended; the second of three
\* scopes had no spans and the spans of the first and third were appended.
C14_Witness ==
    /\ op = "processTraces" /\ ret.t = "undefined"
    /\ \/ /\ GroupsSkipped(arg) = {2}
          /\ Len(appended) = 2 /\ spans = appended
          /\ appended[1].serviceName = Str("mobile-app") /\ appended[1].operationName = "GET /users"
          /\ appended[2].serviceName = Str("auth")
       \/ /\ ScopesSkipped(arg) = {<<1, 2>>}
          /\ Len(appended) = 2 /\ spans = appended
          /\ appended[1].operationName = "GET /users"
          /\ appended[2].operationName = "login"

\* The places in traversal order of the leaf spans of a payload that cannot
\* be decoded.
Failures(data) ==
    { m \in 1..Cardinality(LeafKeys(data)) :
        convertSpanThrows(LeafAt(data, Leaves(data)[m])) }

\* C15: when decoding fails at the k-th leaf span of a payload, processTraces
\* fails, the response is an error, and the store holds the records of the
\* k-1 earlier leaves appended after its previous contents, up to FIFO
\* eviction; no later leaf of the payload is appended.
C15_PartialIngest ==
    [][(op' = "processTraces" /\ arg'.t = "object" /\ Failures(arg') # {}) =>
          /\ ret'.t = "throw"
          /\ response(ret') = 500
          /\ appended' = appended \o Records(arg', Min(Failures(arg')) - 1)
          /\ spans' = LastN(appended', Min({maxSpans, Len(appended')}))]_vars

\* C15 witness: decoding failed at the third of four leaves, in the second
\* group, after a span had been stored; the first two leaves were appended
\* and the oldest span was evicted.
C15_Witness ==
    /\ op = "processTraces" /\ arg \in FailingPayloads /\ ret.t = "throw"
    /\ Cardinality(LeafKeys(arg)) = 4 /\ Min(Failures(arg)) = 3
    /\ maxSpans = 2 /\ Len(appended) = 3 /\ dropped = 1
    /\ spans = SubSeq(appended, 2, 3)
    /\ spans[1].operationName = "GET /users" /\ spans[1].status = "OK"
    /\ spans[2].status = "ERROR"

\* A sequence of objects.
Objects(list) == list.t = "array" /\ \A i \in 1..Len(list.v) : list.v[i].t = "object"

\* A payload whose resourceSpans, scopeSpans and spans are sequences of
\* objects.
WellShaped(data) ==
    /\ data.t = "object" /\ Objects(get(data, "resourceSpans"))
    /\ \A i \in 1..Len(get(data, "resourceSpans").v) :
          /\ Objects(get(GroupAt(data, i), "scopeSpans"))
          /\ \A j \in 1..Len(get(GroupAt(data, i), "scopeSpans").v) :
                Objects(get(ScopeAt(data, i, j), "spans"))

\* The leaf spans of a payload that have no startTimeUnixNano.
NoStart(data) ==
    { key \in LeafKeys(data) : get(LeafAt(data, key), "startTimeUnixNano").t = "undefined" }

\* C16: processTraces on a payload whose resourceSpans, scopeSpans and spans
\* are sequences of objects completes without failure and appends one
\* record per leaf span, whichever optional parts are missing.
C16_OptionalParts ==
    [][(op' = "processTraces" /\ WellShaped(arg')) =>
          /\ ret'.t = "undefined"
          /\ appended' = appended \o Records(arg', Cardinality(LeafKeys(arg')))]_vars

\* C16 failing case: of three leaf spans the second has no startTimeUnixNano;
\* processTraces threw and only the first leaf was appended.
C16_Witness ==
    /\ op = "processTraces" /\ arg \in PartialPayloads /\ WellShaped(arg)
    /\ Cardinality(LeafKeys(arg)) = 3 /\ NoStart(arg) = {<<1, 1, 2>>}
    /\ ret.t = "throw"
    /\ Len(appended) = 1 /\ appended[1].operationName = "unknown-operation"

\* The attributes of a resource whose key is exactly "service.name".
NameAttributes(resource) ==
    { i \in 1..Len(ListOf(get(resource, "attributes"))) :
        get(ListOf(get(resource, "attributes"))[i], "key") = Str("service.name") }

\* The string value of an attribute, "unknown-service" when it has none.
StringValueOf(attribute) ==
    IF get(get(attribute, "value"), "stringValue").t = "string"
    THEN get(get(attribute, "value"), "stringValue")
    ELSE Str("unknown-service")

\* The service name of a resource as described: the string value of its
\* service.name attribute, "unknown-service" when there is no such attribute
\* or its value is not a string.
NamedService(resource) ==
    IF NameAttributes(resource) = {} THEN Str("unknown-service")
    ELSE StringValueOf(ListOf(get(resource, "attributes"))[Min(NameAttributes(resource))])

\* C20: every span appended by processTraces carries the service name of its
\* group: the string value of the resource attribute named service.name, and
\* "unknown-service" when there is no such attribute or its value is not a
\* string.
C20_ServiceName ==
    [][(op' = "processTraces" /\ arg' \in NamingPayloads) =>
          /\ Len(appended') = Len(appended) + Cardinality(LeafKeys(arg'))
          /\ \A m \in 1..Cardinality(LeafKeys(arg')) :
                appended'[Len(appended) + m].serviceName
                    = NamedService(get(GroupAt(arg', Leaves(arg')[m][1]), "resource"))]_vars

\* C20 failing case: the service.name attribute of the group has the
\* stringValue 42, and both spans of the group were stored with the number
\* 42 as their serviceName.
C20_Witness ==
    /\ op = "processTraces" /\ arg \in NamingPayloads
    /\ NamedService(get(GroupAt(arg, 1), "resource")) = Str("unknown-service")
    /\ Len(appended) = 2
    /\ appended[1].serviceName.t = "number" /\ appended[1].serviceName.v = 42
    /\ appended[2].serviceName.t = "number" /\ appended[2].serviceName.v = 42

\* The four statuses of a stored span.
Statuses == {"UNSET", "OK", "ERROR", "UNKNOWN"}

\* The status described for a wire status that is missing or an object.
DescribedStatus(status) ==
    CASE status.t \in {"undefined", "null"} -> "OK"
      [] get(status, "code") = Num(0) -> "UNSET"
      [] get(status, "code") = Num(1) -> "OK"
      [] get(status, "code") = Num(2) -> "ERROR"
      [] OTHER -> "UNKNOWN"

\* The wire status of the one span of a payload.
StatusSent(data) == get(LeafAt(data, <<1, 1, 1>>), "status")

\* C19: extractStatus gives OK for a missing status, UNSET, OK and ERROR for
\* the codes 0, 1 and 2 and UNKNOWN for any other or absent code; its result
\* is always one of the four statuses, and a span is decoded and stored with
\* that status whatever its wire status is.
C19_Status ==
    /\ op = "extractStatus" =>
          /\ ret.t = "string" /\ ret.v \in Statuses
          /\ arg.t \in {"undefined", "null", "object"} => ret.v = DescribedStatus(arg)
    /\ op = "processTraces" =>
          /\ ret.t = "undefined"
          /\ appended[Len(appended)].status \in Statuses
          /\ StatusSent(arg).t \in {"undefined", "null", "object"} =>
                appended[Len(appended)].status = DescribedStatus(StatusSent(arg))

\* C19 witnesses: a status object without a code was decoded as UNKNOWN, and
\* a span with status code 2 was stored as ERROR after one stored as UNSET.
C19_Witness ==
    \/ /\ op = "extractStatus" /\ arg = Obj([message |-> Str("boom")])
       /\ ret = Str("UNKNOWN")
    \/ /\ op = "processTraces" /\ StatusSent(arg) = Obj([code |-> Num(2)])
       /\ Len(appended) = 2
       /\ appended[1].status = "UNSET" /\ appended[2].status = "ERROR"

\* The places in the log of the addSpan calls made for a request.
Appends(id) == { i \in 1..Len(log) : log[i] = Access(id, "addSpan") }

\* C17: ingest calls run to completion one at a time: no processTraces call
\* is suspended between two of its appends, and between the first and the
\* last append of one call the store is accessed by no other request, so
\* the spans of one call are a contiguous block of the append order.
C17_NoInterleaving ==
    /\ \A id \in 1..Len(requests) : requests[id].pc # "running"
    /\ \A id \in 1..Len(requests) :
          \A i \in Appends(id) : \A k \in Appends(id) :
              \A j \in i..k : log[j].request = id

\* C17 witness: two ingest requests are in flight, neither answered; the one
\* received second was handled first, a fetch ran between the two calls, and
\* each call's two spans are next to each other in the append order.
C17_Witness ==
    /\ Len(requests) = 3
    /\ requests[1].pc = "awaiting" /\ requests[2].pc = "awaiting"
    /\ log = << Access(2, "addSpan"), Access(2, "addSpan"), Access(3, "getAllSpans"),
                Access(1, "addSpan"), Access(1, "addSpan") >>
    /\ Len(appended) = 4
    /\ appended[1].serviceName = appended[2].serviceName
    /\ appended[3].serviceName = appended[4].serviceName
    /\ appended[2].serviceName # appended[3].serviceName

\* C18: GET /telemetry/spans answers with the min(100, count) most recently
\* appended spans, most recent first, and with total equal to the number of
\* spans held, and leaves the store unchanged.
C18_FetchAll ==
    [][(\E id \in 1..Len(requests) : log' = Append(log, Access(id, "getAllSpans"))) =>
          /\ spans' = spans
          /\ ret'.v.total = Len(spans)
          /\ ret'.v.spans = [i \in 1..Min({100, Len(spans)}) |-> spans[Len(spans) + 1 - i]]]_vars

\* C18 witness: a store of 99 spans took two more from an ingest call, and
\* the fetch after it answered total 101 with 100 spans, the newest first
\* and the oldest left out.
C18_Witness ==
    /\ op = "GET /telemetry/spans"
    /\ Len(spans) = 101 /\ Len(log) = 3
    /\ ret.v.total = 101 /\ Len(ret.v.spans) = 100
    /\ ret.v.spans[1] = spans[101] /\ ret.v.spans[100] = spans[2]
    /\ ret.v.spans[1].operationName = "unknown-operation"

\* The characters 0-9 and a-f, and the value of one of them.
LowerHex == 48..57 \cup 97..102
HexValue(c) == IF c <= 57 THEN c - 48 ELSE c - 87

\* C21: bytesToHex renders n bytes as exactly 2n lowercase hexadecimal
\* digits, two per byte, zero-padded, in order and with nothing between
\* them; a string identifier is returned as it is; an absent or empty
\* identifier gives the empty string.
C21_BytesToHex ==
    op = "bytesToHex" =>
        /\ arg.t = "array" =>
              /\ Len(ret.v) = 2 * Len(arg.v)
              /\ \A i \in 1..Len(arg.v) :
                    /\ ret.v[2 * i - 1] \in LowerHex
                    /\ ret.v[2 * i] \in LowerHex
                    /\ 16 * HexValue(ret.v[2 * i - 1]) + HexValue(ret.v[2 * i]) = arg.v[i].v
        /\ arg.t = "text" => ret = arg
        /\ arg.t \in {"undefined", "null"} => ret = Text(<<>>)
        /\ (arg.t = "array" /\ arg.v = <<>>) => ret = Text(<<>>)

\* [0x1f, 0x0a] became "1f0a".
C21_Witness ==
    /\ op = "bytesToHex"
    /\ arg = Arr(<<Num(31), Num(10)>>)
    /\ ret = Text(<<49, 102, 48, 97>>)

\* The quotient by 1,000,000 of a count of nanoseconds, truncated toward
\* zero, as a time value.
Truncated(nanos) ==
    IF nanos.t = "number"
    THEN timeOf(IF nanos.v >= 0 THEN nanos.v \div 1000000 ELSE 0 - ((0 - nanos.v) \div 1000000))
    ELSE LET Whole(p) == timeOfDigits(SubSeq(p.digits, 1, Len(p.digits) - 6))
             Signed(p) == IF p.neg THEN negate(Whole(p)) ELSE Whole(p)
         IN  Signed(parseInt(nanos.v))

\* C22: nanosToMillis gives, for a count of nanoseconds that is an integer
\* or a string of decimal digits, the integer quotient by 1,000,000
\* truncated toward zero, never rounded, the same for both forms.
C22_Truncates ==
    op = "nanosToMillis" => ret = Millis(Truncated(arg))

\* "1700000000123999999" became 1700000000124, one millisecond more than
\* the truncated quotient.
C22_Witness ==
    /\ op = "nanosToMillis"
    /\ arg = Digits(<<1, 7>> \o Zeros(8) \o <<1, 2, 3, 9, 9, 9, 9, 9, 9>>)
    /\ ret = Millis(timeOfDigits(<<1, 7>> \o Zeros(8) \o <<1, 2, 4>>))
    /\ Truncated(arg) = timeOfDigits(<<1, 7>> \o Zeros(8) \o <<1, 2, 3>>)

\* The entries of an attribute list that have a key and a value.
Keyed(list) ==
    {i \in 1..Len(list) : truthy(get(list[i], "key")) /\ truthy(get(list[i], "value"))}

\* The value the description gives for an attribute value: the first typed
\* field it has, an intValue as the integer it denotes, else the JSON text
\* of the whole value.
TypedValue(value) ==
    CASE value.t = "boolean" -> Text(IF value.v THEN <<116, 114, 117, 101>> ELSE <<102, 97, 108, 115, 101>>)
      [] "stringValue" \in DOMAIN value.v -> value.v.stringValue
      [] "intValue" \in DOMAIN value.v ->
            IF value.v.intValue.t = "number" THEN value.v.intValue
            ELSE Num(valueOf([k \in 1..Len(value.v.intValue.v) |-> value.v.intValue.v[k] - 48]))
      [] "doubleValue" \in DOMAIN value.v -> value.v.doubleValue
      [] "boolValue" \in DOMAIN value.v -> value.v.boolValue
      [] value.v = NoFields -> Text(<<123, 125>>)
      [] "arrayValue" \in DOMAIN value.v ->
            Text(<<123, 34, 97, 114, 114, 97, 121, 86, 97, 108, 117, 101, 34, 58,
                   123, 34, 118, 97, 108, 117, 101, 115, 34, 58, 91, 93, 125, 125>>)

\* C23: extractAttributes stores, for an entry with a key and a value, the
\* first present of stringValue (unchanged), intValue (as an integer),
\* doubleValue, boolValue, else the JSON text of the whole value; entries
\* with no key or no value contribute nothing.  (When a key is repeated the
\* last entry decides.)
C23_AttributeDecoding ==
    (op = "extractAttributes" /\ arg.t = "array") =>
        /\ \A i \in Keyed(arg.v) :
              (\A j \in Keyed(arg.v) : j > i => get(arg.v[j], "key") # get(arg.v[i], "key"))
                  => /\ get(arg.v[i], "key").v \in DOMAIN ret.v
                     /\ ret.v[get(arg.v[i], "key").v] = TypedValue(get(arg.v[i], "value"))
        /\ \A k \in DOMAIN ret.v : \E i \in Keyed(arg.v) : get(arg.v[i], "key").v = k

\* [{key: "a", value: {intValue: "5"}}, {key: "b", value: {boolValue: true}}]
\* was decoded to {a: 5, b: true}.
C23_Witness ==
    /\ op = "extractAttributes"
    /\ arg = Arr(<<Attribute("a", "intValue", Digits(<<5>>)), Attribute("b", "boolValue", Bool(TRUE))>>)
    /\ ret = Obj(put(put(NoFields, "a", Num(5)), "b", Bool(TRUE)))

\* The keys of the entries that have a key and a value, and the last of
\* these entries with key k.
Keys(list) == {get(list[i], "key").v : i \in Keyed(list)}
LastWith(list, k) == Max({i \in Keyed(list) : get(list[i], "key").v = k})

\* C27: the decoded attributes have one value per key: the number of keys
\* is the number of distinct keys among the entries that have a key and a
\* value, and a key the list repeats holds the value decoded from the last
\* such entry with that key.
C27_LastWriteWins ==
    (op = "extractAttributes" /\ arg.t = "array") =>
        /\ DOMAIN ret.v = Keys(arg.v)
        /\ Cardinality(DOMAIN ret.v) = Cardinality(Keys(arg.v))
        /\ \A k \in Keys(arg.v) :
              ret.v[k] = TypedValue(get(arg.v[LastWith(arg.v, k)], "value"))

\* [{key: "a", value: {stringValue: "x"}}, {key: "a", value: {intValue: "5"}}]
\* was decoded to {a: 5}.
C27_Witness ==
    /\ op = "extractAttributes"
    /\ arg = Arr(<<Attribute("a", "stringValue", Text(<<120>>)), Attribute("a", "intValue", Digits(<<5>>))>>)
    /\ ret = Obj(put(NoFields, "a", Num(5)))

WireSpan == LeafAt(arg, <<1, 1, 1>>)
NoIdentifier(id) ==
    \/ id.t \in {"undefined", "null"}
    \/ id.t \in {"text", "array"} /\ id.v = <<>>

\* C25: the parentSpanId of a decoded span is undefined when the wire
\* parentSpanId is absent or empty (an empty string or an empty byte
\* sequence); otherwise it is the identifier decoded as traceId and spanId
\* are (a string as it is, bytes as two hexadecimal digits each), a
\* non-empty string.
C25_ParentSpanId ==
    (op = "processTraces" /\ Len(appended) = 1) =>
        IF NoIdentifier(get(WireSpan, "parentSpanId"))
        THEN appended[1].parentSpanId = Undefined
        ELSE /\ appended[1].parentSpanId.t = "text"
             /\ appended[1].parentSpanId.v # <<>>
             /\ get(WireSpan, "parentSpanId").t = "text"
                    => appended[1].parentSpanId = get(WireSpan, "parentSpanId")
             /\ get(WireSpan, "parentSpanId").t = "array"
                    => /\ Len(appended[1].parentSpanId.v) = 2 * Len(get(WireSpan, "parentSpanId").v)
                       /\ \A i \in 1..Len(get(WireSpan, "parentSpanId").v) :
                             16 * HexValue(appended[1].parentSpanId.v[2 * i - 1])
                               + HexValue(appended[1].parentSpanId.v[2 * i])
                                 = get(WireSpan, "parentSpanId").v[i].v

\* A span whose parentSpanId is the empty byte sequence was appended with
\* the empty string as its parentSpanId.
C25_Witness ==
    /\ op = "processTraces"
    /\ Len(appended) = 1
    /\ get(WireSpan, "parentSpanId") = Arr(<<>>)
    /\ appended[1].parentSpanId = Text(<<>>)

\* A time value moved by d milliseconds.
Later(t, d) == [day |-> t.day + (t.msec + d) \div 86400000, msec |-> (t.msec + d) % 86400000]

\* C26: every span processTraces appends has duration = endTime - startTime
\* on the converted millisecond values, never clamped: negative exactly when
\* endTime < startTime, zero exactly when both are the same millisecond.
C26_Duration ==
    (op = "processTraces" /\ Len(appended) = 1) =>
        IF appended[1].startTime.t = "number" /\ appended[1].endTime.t = "number"
        THEN /\ appended[1].duration.t = "number"
             /\ Later(appended[1].startTime.v, appended[1].duration.v) = appended[1].endTime.v
             /\ appended[1].duration.v < 0 <=> timeLess(appended[1].endTime.v, appended[1].startTime.v)
             /\ appended[1].duration.v = 0 <=> appended[1].endTime.v = appended[1].startTime.v
        ELSE appended[1].duration = NaN

\* A span that ends 2 ms before it starts was appended with duration -2.
C26_Witness ==
    /\ op = "processTraces"
    /\ Len(appended) = 1
    /\ get(WireSpan, "startTimeUnixNano") = Num(3000000)
    /\ appended[1].startTime = Millis(timeOf(3))
    /\ appended[1].endTime = Millis(timeOf(1))
    /\ appended[1].duration = Num(-2)

\* The attributes the description gives for a list: no key for no list,
\* else for each key the described value of the last entry with that key.
Described(attributes) ==
    IF attributes.t # "array" THEN NoFields
    ELSE [k \in Keys(attributes.v) |->
            TypedValue(get(attributes.v[LastWith(attributes.v, k)], "value"))]

\* C28: extractEvents gives one event per wire event, in the same order and
\* none left out or merged: the i-th has the wire name, or "unknown-event"
\* when the name is missing, the wire time in milliseconds and the
\* attributes decoded by the rule of span attributes; no events list gives
\* the empty sequence.
C28_Events ==
    op = "extractEvents" =>
        IF arg.t # "array" THEN ret = Arr(<<>>)
        ELSE /\ Len(ret.v) = Len(arg.v)
             /\ \A i \in 1..Len(arg.v) :
                   /\ ret.v[i].name = IF truthy(get(arg.v[i], "name")) THEN get(arg.v[i], "name").v
                                      ELSE "unknown-event"
                   /\ ret.v[i].timestamp = Millis(Truncated(get(arg.v[i], "timeUnixNano")))
                   /\ ret.v[i].attributes = Described(get(arg.v[i], "attributes"))

\* Two different events, the second without a name, were decoded in their
\* order.
C28_Witness ==
    /\ op = "extractEvents"
    /\ arg.t = "array"
    /\ Len(arg.v) = 2
    /\ ret.v[1].name = "scroll"
    /\ ret.v[1].timestamp = Millis(timeOf(1002))
    /\ ret.v[1].attributes = put(put(NoFields, "a", Num(5)), "b", Bool(TRUE))
    /\ get(arg.v[2], "name") = Undefined
    /\ ret.v[2].name = "unknown-event"
    /\ ret.v[2].timestamp = Millis(timeOf(1001))

RECURSIVE SumOfCounts(_)
\* The sum of the counts of a list of operations.
SumOfCounts(top) ==
    IF top = <<>> THEN 0 ELSE SumOfCounts(SubSeq(top, 1, Len(top) - 1)) + top[Len(top)].count

\* C29: in every state of the store the result of getStats has errorCount +
\* successCount = totalSpans = the number of spans held <= maxSpans, and
\* uniqueServices, uniqueOperations and the sum of the counts of
\* topOperations are each at most totalSpans, and at least 1 when the store
\* holds a span.
C29_StatsTotals ==
    op = "getStats" =>
        /\ ret.errorCount + ret.successCount = ret.totalSpans
        /\ ret.totalSpans = Len(spans)
        /\ ret.totalSpans <= maxSpans
        /\ ret.uniqueServices <= ret.totalSpans
        /\ ret.uniqueOperations <= ret.totalSpans
        /\ SumOfCounts(ret.topOperations) <= ret.totalSpans
        /\ Len(spans) > 0 =>
              /\ ret.uniqueServices >= 1
              /\ ret.uniqueOperations >= 1
              /\ SumOfCounts(ret.topOperations) >= 1

\* getStats on a full store of three spans, one of them an error, of two
\* services and two operations.
C29_Witness ==
    /\ op = "getStats"
    /\ Len(spans) = 3
    /\ maxSpans = 3
    /\ dropped > 0 \/ Len(appended) = 3
    /\ ret.totalSpans = 3
    /\ ret.errorCount = 1
    /\ ret.successCount = 2
    /\ ret.uniqueServices = 2
    /\ ret.uniqueOperations = 2
    /\ SumOfCounts(ret.topOperations) = 3

\* The operations that read the store.
ReadOps ==
    { "getAllSpans", "getRecentSpans", "getRecentSpans()", "getSpansByService",
      "getSpansByOperation", "getTotalSpans", "getStats" }

====
